---- MODULE Spec2Model ----
(***************************************************************************)
(* Model of the per-tick engine of the agent based foraging simulation:    *)
(* Rescource (abm/environment/rescource.py) and Simulation                 *)
(* (abm/simulation/sims.py).                                               *)
(*                                                                         *)
(* Numbers.  Positions and velocities are floats in the program.  Here     *)
(* every length is an integer count of 1/Scale pixel and every angle an    *)
(* integer count of pi/16, so that des_velocity = 1.5 px, the collision    *)
(* nudge pi/8, the wall turn pi/2 and a random turn of about 0.2 rad are   *)
(* all exact.  cos and sin are read from a table in thousandths.           *)
(***************************************************************************)
EXTENDS Integers, Sequences, FiniteSets, TLC

VARIABLES
    agents,              \* self.agents: sprite group, insertion ordered
    rescources,          \* self.rescources: sprite group, insertion ordered
    t,                   \* self.t
    T,                   \* self.T
    is_paused,           \* self.is_paused
    teleport_exploit,    \* self.teleport_exploit
    regenerate_resources,\* self.regenerate_resources
    pooling_time,        \* self.pooling_time, handed to every agent
    agent_consumption,   \* self.agent_consumption, handed to every agent
    min_resc_units,      \* self.min_resc_units
    max_resc_units,      \* self.max_resc_units
    quality,             \* the quality Rescource objects are built with
    pc,                  \* position in Simulation.start
    collision_group_aa,  \* local of start(): dict agent -> agents it overlaps
    collided_agents,     \* local of start(): list
    collision_group_ar,  \* local of start(): dict patch -> agents on it
    ar_i,                \* entries of collision_group_ar the loop has done
    agents_on_rescs,     \* local of start(): list
    next_ref,            \* object identities handed out to Rescource objects
    assigned_ids,        \* history: the ids given to patches, in order
    deplete_calls,       \* history: deplete calls of the current tick
    killed,              \* history: patches killed in the current tick
    created,             \* history: patches created in the current tick
    last_ar,             \* history: the patch iteration that ran last
    call                 \* history: the last direct call of a Rescource method

vars == <<agents, rescources, t, T, is_paused, teleport_exploit,
          regenerate_resources, pooling_time, agent_consumption,
          min_resc_units, max_resc_units, quality, pc, collision_group_aa,
          collided_agents, collision_group_ar, ar_i, agents_on_rescs,
          next_ref, assigned_ids, deplete_calls, killed, created, last_ar,
          call>>

-----------------------------------------------------------------------------
(* Units *)

Scale == 2
Px(n) == n * Scale

PI == 16
TWOPI == 2 * PI
HALFPI == PI \div 2

-----------------------------------------------------------------------------
(* Configuration: the arguments of Simulation.__init__ *)

WIDTH == Px(90)
HEIGHT == Px(90)
window_pad == Px(10)
N == 2
agent_radii == Px(10)
N_resc == 1
resc_radius == Px(10)

(* Rescource.__init__ defaults, which sims.py never overrides *)
des_velocity == 3
res_theta_abs == 1

Modes == {"explore", "collide", "pool", "relocate", "exploit"}

-----------------------------------------------------------------------------
(* Inputs: the random draws and the outputs of the agent's own update *)

\* np.random.randint(WIDTH / 3, 2 * WIDTH / 3 + 1), same for HEIGHT
AgentInitPositions == {<<Px(30), Px(30)>>, <<Px(60), Px(30)>>}
\* positions Agent.update may leave an agent at
AgentPosInputs(id) ==
    IF id = 0 THEN {<<Px(30), Px(30)>>}
    ELSE {<<Px(39), Px(42)>>, <<Px(60), Px(30)>>}
AgentOriInputs == {0}
AgentVelInputs == {2}
\* np.random.randint(window_pad, WIDTH + window_pad - radius), same for HEIGHT
PatchXs == {Px(45), Px(52), Px(89)}
PatchYs == {Px(30)}
\* np.random.randint(min_resc_units, max_resc_units): high end excluded
PatchUnits == min_resc_units .. (max_resc_units - 1)
\* supcalc.random_walk: theta uniform in [-res_theta_abs, res_theta_abs]
ThetaInputs == {res_theta_abs}
PoolingTimeInputs == {0, 3}
\* agent_consumption, min_resc_perpatch and max_resc_perpatch of a run, and
\* the quality of its patches: sims.py leaves Rescource's default, 1
ConsumptionInputs == {1}
UnitBoundInputs == {<<1, 3>>}
QualityInputs == {1}
\* simulation horizons, self.T: none, and two ticks
HorizonInputs == {0, 2}

-----------------------------------------------------------------------------
(* Arithmetic helpers *)

\* nearest integer to n / d, d > 0, halves away from zero
RoundDiv(n, d) ==
    IF n >= 0 THEN (2 * n + d) \div (2 * d)
    ELSE 0 - ((2 * (0 - n) + d) \div (2 * d))

QuarterCos == <<1000, 981, 924, 831, 707, 556, 383, 195, 0>>

\* 1000 * cos(k * pi / 16)
Cos1000(k) ==
    LET m == k % TWOPI IN
    IF m <= 8 THEN QuarterCos[m + 1]
    ELSE IF m <= 16 THEN 0 - QuarterCos[(16 - m) + 1]
    ELSE IF m <= 24 THEN 0 - QuarterCos[(m - 16) + 1]
    ELSE QuarterCos[(32 - m) + 1]

\* 1000 * sin(k * pi / 16)
Sin1000(k) == Cos1000(k - 8)

\* pygame.sprite.collide_circle on two circles given by centre and radius
CollideCircle(c1, r1, c2, r2) ==
    (c1[1] - c2[1]) * (c1[1] - c2[1]) + (c1[2] - c2[2]) * (c1[2] - c2[2])
        <= (r1 + r2) * (r1 + r2)

\* centre of a sprite: position is its top left corner
Center(position, radius) == <<position[1] + radius, position[2] + radius>>

-----------------------------------------------------------------------------
(* Rescource *)

boundaries_x == <<window_pad, window_pad + WIDTH>>
boundaries_y == <<window_pad, window_pad + HEIGHT>>

\* Rescource.__init__
NewRescource(ref, id, radius, position, resc_units, q) ==
    [ref |-> ref, id |-> id, radius |-> radius, position |-> position,
     resc_units |-> resc_units, resc_left |-> resc_units,
     unit_per_timestep |-> q, velocity |-> 0, orientation |-> 0,
     boundaries_x |-> boundaries_x, boundaries_y |-> boundaries_y]

\* prove_orientation without the test for angles above 2 pi
proveOrientationNoWrapDown(o) == IF o < 0 THEN TWOPI + o ELSE o

\* Rescource.prove_orientation
prove_orientation(o) ==
    LET o1 == IF o < 0 THEN TWOPI + o ELSE o
    IN IF o1 > TWOPI THEN o1 - TWOPI ELSE o1

\* FarWallPosition with the radius forgotten: position taken for the centre
FarWallPositionNoRadius(boundary, radius) == boundary - Px(1)

\* FarWallPosition with the margin on the wrong side of the wall
FarWallPositionBeyond(boundary, radius) == boundary - radius + Px(1)

\* FarWallPosition with a margin of two pixels
FarWallPositionTwoUnits(boundary, radius) == boundary - radius - Px(2)

\* the position a far (right or lower) wall puts the patch back at
FarWallPosition(boundary, radius) == boundary - radius - Px(1)

\* Rescource.reflect_from_walls
reflect_from_walls(r) ==
    LET x == r.position[1] + r.radius
        y == r.position[2] + r.radius
        o0 == r.orientation
        \* left wall
        px1 == IF x < r.boundaries_x[1] THEN r.boundaries_x[1] - r.radius
               ELSE r.position[1]
        o1 == IF x < r.boundaries_x[1]
              THEN prove_orientation(
                     IF HALFPI <= o0 /\ o0 < PI THEN o0 - HALFPI
                     ELSE IF PI <= o0 /\ o0 <= 3 * HALFPI THEN o0 + HALFPI
                     ELSE o0)
              ELSE o0
        \* right wall
        px2 == IF x > r.boundaries_x[2] THEN FarWallPosition(r.boundaries_x[2], r.radius)
               ELSE px1
        o2 == IF x > r.boundaries_x[2]
              THEN prove_orientation(
                     IF 3 * HALFPI <= o1 /\ o1 < TWOPI THEN o1 - HALFPI
                     ELSE IF 0 <= o1 /\ o1 <= HALFPI THEN o1 + HALFPI
                     ELSE o1)
              ELSE o1
        \* upper wall
        py1 == IF y < r.boundaries_y[1] THEN r.boundaries_y[1] - r.radius
               ELSE r.position[2]
        o3 == IF y < r.boundaries_y[1]
              THEN prove_orientation(
                     IF HALFPI <= o2 /\ o2 <= PI THEN o2 + HALFPI
                     ELSE IF 0 <= o2 /\ o2 < HALFPI THEN o2 - HALFPI
                     ELSE o2)
              ELSE o2
        \* lower wall
        py2 == IF y > r.boundaries_y[2] THEN FarWallPosition(r.boundaries_y[2], r.radius)
               ELSE py1
        o4 == IF y > r.boundaries_y[2]
              THEN prove_orientation(
                     IF 3 * HALFPI <= o3 /\ o3 <= TWOPI THEN o3 + HALFPI
                     ELSE IF PI <= o3 /\ o3 < 3 * HALFPI THEN o3 - HALFPI
                     ELSE o3)
              ELSE o3
    IN [r EXCEPT !.position = <<px2, py2>>, !.orientation = o4]

\* update that also lets the patch grow back by a unit
updateRegrow(r, theta) ==
    LET o == prove_orientation(r.orientation + theta)
        v == r.velocity + (des_velocity - r.velocity)
        moved == [r EXCEPT
                    !.orientation = o,
                    !.velocity = v,
                    !.resc_left = IF r.resc_left < r.resc_units
                                  THEN r.resc_left + 1 ELSE r.resc_left,
                    !.position = <<r.position[1] + RoundDiv(v * Cos1000(o), 1000),
                                   r.position[2] - RoundDiv(v * Sin1000(o), 1000)>>]
    IN reflect_from_walls(moved)

\* Rescource.update with the random turn theta drawn by supcalc.random_walk
update(r, theta) ==
    LET o == prove_orientation(r.orientation + theta)
        v == r.velocity + (des_velocity - r.velocity)
        moved == [r EXCEPT
                    !.orientation = o,
                    !.velocity = v,
                    !.position = <<r.position[1] + RoundDiv(v * Cos1000(o), 1000),
                                   r.position[2] - RoundDiv(v * Sin1000(o), 1000)>>]
    IN reflect_from_walls(moved)

\* deplete with "can not deplete more than what is left" left out
depleteNoFloor(r, rescource_units) ==
    LET units == IF rescource_units > r.unit_per_timestep
                 THEN r.unit_per_timestep ELSE rescource_units
        left == r.resc_left - units
    IN [resc |-> [r EXCEPT !.resc_left = left],
        depleted_units |-> units,
        destroy |-> ~(left > 0)]

\* deplete that reports the shortfall instead of what was left
depleteShortfall(r, rescource_units) ==
    LET units == IF rescource_units > r.unit_per_timestep
                 THEN r.unit_per_timestep ELSE rescource_units
        left == IF r.resc_left >= units THEN r.resc_left - units ELSE 0
        depleted_units == IF r.resc_left >= units THEN units
                          ELSE r.resc_left - units
    IN [resc |-> [r EXCEPT !.resc_left = left],
        depleted_units |-> depleted_units,
        destroy |-> ~(left > 0)]

\* deplete without the cap at unit_per_timestep
depleteNoCap(r, rescource_units) ==
    LET units == rescource_units
        left == IF r.resc_left >= units THEN r.resc_left - units ELSE 0
        depleted_units == IF r.resc_left >= units THEN units ELSE r.resc_left
    IN [resc |-> [r EXCEPT !.resc_left = left],
        depleted_units |-> depleted_units,
        destroy |-> ~(left > 0)]

\* deplete that returns True only from the branch that clamps to zero
depleteFlagOnClamp(r, rescource_units) ==
    LET units == IF rescource_units > r.unit_per_timestep
                 THEN r.unit_per_timestep ELSE rescource_units
        left == IF r.resc_left >= units THEN r.resc_left - units ELSE 0
        depleted_units == IF r.resc_left >= units THEN units ELSE r.resc_left
    IN [resc |-> [r EXCEPT !.resc_left = left],
        depleted_units |-> depleted_units,
        destroy |-> ~(r.resc_left >= units)]

\* Rescource.deplete: the patch after the call and the returned pair
deplete(r, rescource_units) ==
    LET units == IF rescource_units > r.unit_per_timestep
                 THEN r.unit_per_timestep ELSE rescource_units
        left == IF r.resc_left >= units THEN r.resc_left - units ELSE 0
        depleted_units == IF r.resc_left >= units THEN units ELSE r.resc_left
    IN [resc |-> [r EXCEPT !.resc_left = left],
        depleted_units |-> depleted_units,
        destroy |-> ~(left > 0)]

-----------------------------------------------------------------------------
(* Agent: the fields Simulation reads and writes (abm/agent/agent.py) *)

\* Agent.__init__ as called by Simulation.create_agents
NewAgent(id, position) ==
    [id |-> id, position |-> position, orientation |-> 0, velocity |-> 0,
     mode |-> "explore", pool_success |-> 0, pooling_time |-> pooling_time,
     env_status |-> 0, collected_r |-> 0, consumption |-> agent_consumption]

AgentCenter(a) == Center(a.position, agent_radii)
RescCenter(r) == Center(r.position, r.radius)

\* itra.within_group_collision: collide_circle, but never a sprite with itself
within_group_collision(ags, i, j) ==
    i # j /\ CollideCircle(AgentCenter(ags[i]), agent_radii,
                           AgentCenter(ags[j]), agent_radii)

\* the indices of the set S, in increasing order (a group is iterated in order)
SortedIdx(S) ==
    [i \in 1 .. Cardinality(S) |->
          CHOOSE k \in S : Cardinality({j \in S : j < k}) = i - 1]

\* pygame.sprite.groupcollide(self.agents, self.agents, False, False,
\* itra.within_group_collision): one entry per agent that overlaps another,
\* in group order, with the list of the agents it overlaps, in group order
GroupCollideAA(ags) ==
    LET hits(i) == SortedIdx({j \in 1 .. Len(ags) :
                                within_group_collision(ags, i, j)})
        keys == SortedIdx({i \in 1 .. Len(ags) : hits(i) # <<>>})
    IN [k \in 1 .. Len(keys) |-> [agent1 |-> keys[k], agent2 |-> hits(keys[k])]]

\* GroupCollideAR that lists every agent on a patch twice
groupCollideARTwice(rescs, ags) ==
    LET hits(i) == SortedIdx({j \in 1 .. Len(ags) :
                     CollideCircle(RescCenter(rescs[i]), rescs[i].radius,
                                   AgentCenter(ags[j]), agent_radii)})
        keys == SortedIdx({i \in 1 .. Len(rescs) : hits(i) # <<>>})
    IN [k \in 1 .. Len(keys) |-> [resc |-> rescs[keys[k]].ref,
                                 agents |-> hits(keys[k]) \o hits(keys[k])]]

\* pygame.sprite.groupcollide(self.rescources, self.agents, False, False,
\* pygame.sprite.collide_circle)
GroupCollideAR(rescs, ags) ==
    LET hits(i) == SortedIdx({j \in 1 .. Len(ags) :
                     CollideCircle(RescCenter(rescs[i]), rescs[i].radius,
                                   AgentCenter(ags[j]), agent_radii)})
        keys == SortedIdx({i \in 1 .. Len(rescs) : hits(i) # <<>>})
    IN [k \in 1 .. Len(keys) |-> [resc |-> rescs[keys[k]].ref,
                                 agents |-> hits(keys[k])]]

\* proove_resource that accepts every candidate
prooveResourceAlways(rescs, resource) == TRUE

\* Simulation.proove_resource
proove_resource(rescs, resource) ==
    ~ \E i \in 1 .. Len(rescs) :
          CollideCircle(RescCenter(rescs[i]), rescs[i].radius,
                        RescCenter(resource), resource.radius)

\* the id Simulation.add_new_resource_patch gives the new patch
RECURSIVE MaxId(_)
MaxId(rescs) ==
    IF rescs = <<>> THEN 0
    ELSE LET m == MaxId(Tail(rescs))
         IN IF Head(rescs).id > m THEN Head(rescs).id ELSE m

\* NewPatchId that numbers the new patch by the size of the group
NewPatchIdByCount(rescs) == Len(rescs) + 1

NewPatchId(rescs) == MaxId(rescs) + 1

\* the sign of sin(theta), theta = (atan2(dy, dx) + orientation) % (2 pi):
\* positive iff 0 < theta < pi, negative iff pi < theta < 2 pi
ThetaSide(dx, dy, orientation) ==
    LET s == IF dx = 0 /\ dy = 0 THEN Sin1000(orientation)
             ELSE dy * Cos1000(orientation) + dx * Sin1000(orientation)
    IN IF s > 0 THEN 1 ELSE IF s < 0 THEN -1 ELSE 0

\* agent_agent_collision with the exploit test dropped
agentAgentCollisionNoImmunity(ags, agent1, agent2) ==
    LET a2 == agent2[1]
        old == ags[a2]
        side == ThetaSide(old.position[1] - ags[agent1].position[1],
                          old.position[2] - ags[agent1].position[2],
                          old.orientation)
    IN [ags EXCEPT ![a2] =
          [old EXCEPT
             !.mode = "collide",
             !.orientation = IF side = 1 THEN old.orientation - PI \div 8
                             ELSE IF side = -1 THEN old.orientation + PI \div 8
                             ELSE old.orientation,
             !.velocity = IF old.velocity = Px(1) THEN old.velocity + Px(1) \div 2
                          ELSE Px(1)]]

\* agent_agent_collision with the exploit test inverted
agentAgentCollisionInverted(ags, agent1, agent2) ==
    LET a2 == agent2[1]
        old == ags[a2]
        side == ThetaSide(old.position[1] - ags[agent1].position[1],
                          old.position[2] - ags[agent1].position[2],
                          old.orientation)
    IN [ags EXCEPT ![a2] =
          [old EXCEPT
             !.mode = IF old.mode = "exploit" THEN "collide" ELSE old.mode,
             !.orientation = IF side = 1 THEN old.orientation - PI \div 8
                             ELSE IF side = -1 THEN old.orientation + PI \div 8
                             ELSE old.orientation,
             !.velocity = IF old.velocity = Px(1) THEN old.velocity + Px(1) \div 2
                          ELSE Px(1)]]

\* agent_agent_collision that also moves agent2 away from agent1
agentAgentCollisionPush(ags, agent1, agent2) ==
    LET a2 == agent2[1]
        old == ags[a2]
        side == ThetaSide(old.position[1] - ags[agent1].position[1],
                          old.position[2] - ags[agent1].position[2],
                          old.orientation)
    IN [ags EXCEPT ![a2] =
          [old EXCEPT
             !.mode = IF old.mode # "exploit" THEN "collide" ELSE old.mode,
             !.orientation = IF side = 1 THEN old.orientation - PI \div 8
                             ELSE IF side = -1 THEN old.orientation + PI \div 8
                             ELSE old.orientation,
             !.velocity = IF old.velocity = Px(1) THEN old.velocity + Px(1) \div 2
                          ELSE Px(1),
             !.position = <<2 * old.position[1] - ags[agent1].position[1],
                            2 * old.position[2] - ags[agent1].position[2]>>]]

\* agent_agent_collision that resets the velocity to 1 whatever it was
agentAgentCollisionResetSpeed(ags, agent1, agent2) ==
    LET a2 == agent2[1]
        old == ags[a2]
        side == ThetaSide(old.position[1] - ags[agent1].position[1],
                          old.position[2] - ags[agent1].position[2],
                          old.orientation)
    IN [ags EXCEPT ![a2] =
          [old EXCEPT
             !.mode = IF old.mode # "exploit" THEN "collide" ELSE old.mode,
             !.orientation = IF side = 1 THEN old.orientation - PI \div 8
                             ELSE IF side = -1 THEN old.orientation + PI \div 8
                             ELSE old.orientation,
             !.velocity = Px(1)]]

\* Simulation.agent_agent_collision(agent1, agent2), agent2 a list
agent_agent_collision(ags, agent1, agent2) ==
    LET a2 == agent2[1]
        old == ags[a2]
        side == ThetaSide(old.position[1] - ags[agent1].position[1],
                          old.position[2] - ags[agent1].position[2],
                          old.orientation)
    IN [ags EXCEPT ![a2] =
          [old EXCEPT
             !.mode = IF old.mode # "exploit" THEN "collide" ELSE old.mode,
             !.orientation = IF side = 1 THEN old.orientation - PI \div 8
                             ELSE IF side = -1 THEN old.orientation + PI \div 8
                             ELSE old.orientation,
             !.velocity = IF old.velocity = Px(1) THEN old.velocity + Px(1) \div 2
                          ELSE Px(1)]]

\* entries of the list collided_agents: an agent, or a list of agents
AgentEntry(i) == [agent |-> i, list |-> <<>>]
ListEntry(l) == [agent |-> 0, list |-> l]

\* agent in collided_agents
InCollided(i, coll) == \E k \in 1 .. Len(coll) : coll[k].agent = i

\* agent in agents_on_rescs
InSeq(i, s) == \E k \in 1 .. Len(s) : s[k] = i

\* AALoop that puts agent1 into collided_agents whatever teleport_exploit is
RECURSIVE AALoopExcludesAll(_, _, _)
AALoopExcludesAll(group, k, st) ==
    IF k > Len(group) THEN st
    ELSE LET agent1 == group[k].agent1
             agent2 == group[k].agent2
             ags == agent_agent_collision(st.agents, agent1, agent2)
             c1 == <<AgentEntry(agent1), ListEntry(agent2)>>
         IN AALoopExcludesAll(group, k + 1,
                   [agents |-> ags, collided |-> st.collided \o c1])

\* the loop over collision_group_aa.items() in Simulation.start
RECURSIVE AALoop(_, _, _)
AALoop(group, k, st) ==
    IF k > Len(group) THEN st
    ELSE LET agent1 == group[k].agent1
             agent2 == group[k].agent2
             ags == agent_agent_collision(st.agents, agent1, agent2)
             c1 == IF teleport_exploit
                   THEN (IF ags[agent1].mode # "exploit"
                         THEN <<AgentEntry(agent1)>> ELSE <<>>)
                        \o (IF ags[agent2[1]].mode # "exploit"
                            THEN <<ListEntry(agent2)>> ELSE <<>>)
                   ELSE <<AgentEntry(agent1), ListEntry(agent2)>>
         IN AALoop(group, k + 1,
                   [agents |-> ags, collided |-> st.collided \o c1])

\* FinishedPooling without "or agent.pooling_time == 0"
finishedPoolingFlagOnly(a) ==
    a.mode \in {"pool", "relocate"} /\ a.pool_success # 0

\* agent finished pooling: the condition of sims.py lines 351 and 369
FinishedPooling(a) ==
    (a.mode \in {"pool", "relocate"} /\ a.pool_success # 0) \/ a.pooling_time = 0

\* body of "for agent in agents" for one agent that is not in collided_agents
\* (sims.py 347-362); st carries the agents, the patch and destroy_resc
ExamineAgent(st, i) ==
    LET a0 == st.agents[i]
        \* a previous agent on the patch consumed the last unit
        a1 == IF st.destroy_resc
              THEN [a0 EXCEPT !.env_status = -1, !.pool_success = 0]
              ELSE a0
        \* the agent finished pooling on a resource patch
        a2 == IF FinishedPooling(a1)
              THEN [a1 EXCEPT
                      !.pool_success = 0,
                      !.env_status = 1,
                      !.position =
                          IF teleport_exploit
                          THEN <<st.resc.position[1] + st.resc.radius - agent_radii,
                                 st.resc.position[2] + st.resc.radius - agent_radii>>
                          ELSE a1.position]
              ELSE a1
        exploits == a2.mode = "exploit"
        d == deplete(st.resc, a2.consumption)
        a3 == IF exploits
              THEN [a2 EXCEPT
                      !.collected_r = a2.collected_r + d.depleted_units,
                      !.env_status = IF d.destroy THEN -1 ELSE a2.env_status]
              ELSE a2
    IN [agents |-> [st.agents EXCEPT ![i] = a3],
        resc |-> IF exploits THEN d.resc ELSE st.resc,
        destroy_resc |-> IF exploits THEN d.destroy ELSE st.destroy_resc,
        on_rescs |-> Append(st.on_rescs, i),
        calls |-> IF exploits
                  THEN Append(st.calls,
                              [agent |-> i, resc |-> st.resc.ref,
                               request |-> a2.consumption,
                               units |-> st.resc.resc_units,
                               before |-> st.resc.resc_left,
                               after |-> d.resc.resc_left,
                               granted |-> d.depleted_units,
                               exhausted |-> d.destroy])
                  ELSE st.calls,
        examined |-> Append(st.examined, i),
        exhausted_at |-> IF st.exhausted_at = 0 /\ exploits /\ d.destroy
                         THEN Len(st.examined) + 1 ELSE st.exhausted_at]

\* the loop over the agents of a patch without "if agent not in collided_agents"
RECURSIVE AgentsOnPatchLoopNoSkip(_, _, _, _)
AgentsOnPatchLoopNoSkip(list, k, coll, st) ==
    IF k > Len(list) THEN st
    ELSE AgentsOnPatchLoopNoSkip(list, k + 1, coll, ExamineAgent(st, list[k]))

\* "for agent in agents" of one patch (sims.py 345-362)
RECURSIVE AgentsOnPatchLoop(_, _, _, _)
AgentsOnPatchLoop(list, k, coll, st) ==
    IF k > Len(list) THEN st
    ELSE AgentsOnPatchLoop(list, k + 1, coll,
             IF InCollided(list[k], coll) THEN st ELSE ExamineAgent(st, list[k]))

\* the patch with object identity ref, and the group without it (Sprite.kill)
RescByRef(rescs, ref) == rescs[CHOOSE i \in 1 .. Len(rescs) : rescs[i].ref = ref]
ReplaceResc(rescs, r) ==
    [i \in 1 .. Len(rescs) |-> IF rescs[i].ref = r.ref THEN r ELSE rescs[i]]
Kill(rescs, ref) == SelectSeq(rescs, LAMBDA r : r.ref # ref)

\* NoRescAgent without "agent not in collided_agents"
noRescAgentIgnoresCollided(a, i, on_rescs, coll) ==
    IF ~InSeq(i, on_rescs)
       /\ (FinishedPooling(a) \/ a.mode = "exploit")
    THEN [a EXCEPT !.pool_success = 0, !.env_status = -1]
    ELSE a

\* "for agent in self.agents.sprites()" (sims.py 366-374) for one agent
NoRescAgent(a, i, on_rescs, coll) ==
    IF ~InSeq(i, on_rescs) /\ ~InCollided(i, coll)
       /\ (FinishedPooling(a) \/ a.mode = "exploit")
    THEN [a EXCEPT !.pool_success = 0, !.env_status = -1]
    ELSE a

-----------------------------------------------------------------------------
(* Simulation.start *)

NoAr == [resc |-> 0, examined |-> <<>>, exhausted_at |-> 0, destroy_resc |-> FALSE]
NoCall == [op |-> "none"]

\* the state Simulation.__init__ leaves
Init ==
    /\ agents = <<>>
    /\ rescources = <<>>
    /\ t = 0
    /\ T \in HorizonInputs
    /\ is_paused = FALSE
    /\ teleport_exploit \in BOOLEAN
    /\ regenerate_resources \in BOOLEAN
    /\ pooling_time \in PoolingTimeInputs
    /\ agent_consumption \in ConsumptionInputs
    /\ \E b \in UnitBoundInputs : min_resc_units = b[1] /\ max_resc_units = b[2]
    /\ quality \in QualityInputs
    /\ pc = "create_agents"
    /\ collision_group_aa = <<>>
    /\ collided_agents = <<>>
    /\ collision_group_ar = <<>>
    /\ ar_i = 0
    /\ agents_on_rescs = <<>>
    /\ next_ref = 1
    /\ assigned_ids = <<>>
    /\ deplete_calls = <<>>
    /\ killed = <<>>
    /\ created = <<>>
    /\ last_ar = NoAr
    /\ call = NoCall

config == <<T, teleport_exploit, regenerate_resources, pooling_time,
           agent_consumption, min_resc_units, max_resc_units, quality>>
locals == <<collision_group_aa, collided_agents, collision_group_ar, ar_i,
           agents_on_rescs>>
history == <<deplete_calls, killed, created, last_ar>>

\* create_agents that numbers the agents from 1
CreateAgentsFromOne ==
    /\ pc = "create_agents"
    /\ \E pos \in [1 .. N -> AgentInitPositions] :
           agents' = [i \in 1 .. N |-> NewAgent(i, pos[i])]
    /\ pc' = "create_resources"
    /\ UNCHANGED <<rescources, t, is_paused, config, locals, next_ref, assigned_ids,
                   history, call>>

\* Simulation.create_agents
CreateAgents ==
    /\ pc = "create_agents"
    /\ \E pos \in [1 .. N -> AgentInitPositions] :
           agents' = [i \in 1 .. N |-> NewAgent(i - 1, pos[i])]
    /\ pc' = "create_resources"
    /\ UNCHANGED <<rescources, t, is_paused, config, locals, next_ref, assigned_ids, history, call>>

\* Simulation.add_new_resource_patch: the patch the retry loop ends with
AddNewResourcePatch(rescs, new) ==
    /\ new.id = NewPatchId(rescs)
    /\ new.radius = resc_radius
    /\ new.position[1] \in PatchXs
    /\ new.position[2] \in PatchYs
    /\ new.resc_units \in PatchUnits
    /\ proove_resource(rescs, new)

\* the patches add_new_resource_patch may construct
Candidates(rescs, ref) ==
    {NewRescource(ref, NewPatchId(rescs), resc_radius, <<x, y>>, u, quality) :
        x \in PatchXs, y \in PatchYs, u \in PatchUnits}

\* one round of the loop of Simulation.create_resources
CreateResource ==
    /\ pc = "create_resources"
    /\ Len(rescources) < N_resc
    /\ \E new \in Candidates(rescources, next_ref) :
          /\ AddNewResourcePatch(rescources, new)
          /\ rescources' = Append(rescources, new)
          /\ assigned_ids' = Append(assigned_ids, new.id)
    /\ next_ref' = next_ref + 1
    /\ UNCHANGED <<agents, t, is_paused, config, pc, locals, history, call>>

\* create_resources returns and "while self.t < self.T" is tested for the
\* first time; when it fails, pygame.quit()
EnterLoop ==
    /\ pc = "create_resources"
    /\ Len(rescources) = N_resc
    /\ pc' = IF t < T THEN "loop" ELSE "done"
    /\ UNCHANGED <<agents, rescources, t, is_paused, config, locals, next_ref, assigned_ids,
                   history, call>>

\* the events one pass over the event queue may find: none of interest, a
\* press of the space bar, the window being closed
Events == {"none", "space", "quit"}

\* LoopEvents that runs the tick whether the simulation is paused or not
LoopEventsIgnoresPause ==
    /\ pc = "loop"
    /\ \E event \in Events :
          IF event = "quit"
          THEN /\ pc' = "exit"
               /\ is_paused' = is_paused
          ELSE /\ is_paused' = IF event = "space" THEN ~is_paused ELSE is_paused
               /\ pc' = "aa"
    /\ UNCHANGED <<agents, rescources, t, config, locals, next_ref, assigned_ids,
                   history, call>>

\* one pass over the event queue at the head of the loop body: QUIT ends the
\* process (sys.exit), space toggles is_paused.  A paused iteration changes
\* nothing else.
LoopEvents ==
    /\ pc = "loop"
    /\ \E event \in Events :
          IF event = "quit"
          THEN /\ pc' = "exit"
               /\ is_paused' = is_paused
          ELSE /\ is_paused' = IF event = "space" THEN ~is_paused ELSE is_paused
               /\ pc' = IF is_paused' THEN "loop" ELSE "aa"
    /\ UNCHANGED <<agents, rescources, t, config, locals, next_ref, assigned_ids,
                   history, call>>

\* AGENT AGENT INTERACTION (sims.py 306-324)
AgentAgentInteraction ==
    /\ pc = "aa"
    /\ LET group == GroupCollideAA(agents)
           st == AALoop(group, 1, [agents |-> agents, collided |-> <<>>])
       IN /\ collision_group_aa' = group
          /\ agents' = st.agents
          /\ collided_agents' = st.collided
    /\ pc' = "demote"
    /\ UNCHANGED <<rescources, t, is_paused, config, collision_group_ar, ar_i,
                   agents_on_rescs, next_ref, assigned_ids, history, call>>

\* DemoteCollided that demotes nobody
DemoteCollidedNever ==
    /\ pc = "demote"
    /\ agents' = agents
    /\ collision_group_ar' = GroupCollideAR(rescources, agents)
    /\ ar_i' = 0
    /\ agents_on_rescs' = <<>>
    /\ pc' = IF collision_group_ar' = <<>> THEN "no_resc" ELSE "ar"
    /\ UNCHANGED <<rescources, t, is_paused, config, collision_group_aa,
                   collided_agents, next_ref, assigned_ids, history, call>>

\* DemoteCollided that demotes every agent in collide mode
DemoteEveryCollided ==
    /\ pc = "demote"
    /\ agents' = [i \in 1 .. Len(agents) |->
                    IF agents[i].mode = "collide"
                    THEN [agents[i] EXCEPT !.mode = "explore"]
                    ELSE agents[i]]
    /\ collision_group_ar' = GroupCollideAR(rescources, agents)
    /\ ar_i' = 0
    /\ agents_on_rescs' = <<>>
    /\ pc' = IF collision_group_ar' = <<>> THEN "no_resc" ELSE "ar"
    /\ UNCHANGED <<rescources, t, is_paused, config, collision_group_aa,
                   collided_agents, next_ref, assigned_ids, history, call>>

\* sims.py 326-328, and the overlap query of sims.py 332-341
DemoteCollided ==
    /\ pc = "demote"
    /\ agents' = [i \in 1 .. Len(agents) |->
                    IF ~InCollided(i, collided_agents) /\ agents[i].mode = "collide"
                    THEN [agents[i] EXCEPT !.mode = "explore"]
                    ELSE agents[i]]
    /\ collision_group_ar' = GroupCollideAR(rescources, agents)
    /\ ar_i' = 0
    /\ agents_on_rescs' = <<>>
    /\ pc' = IF collision_group_ar' = <<>> THEN "no_resc" ELSE "ar"
    /\ UNCHANGED <<rescources, t, is_paused, config, collision_group_aa,
                   collided_agents, next_ref, assigned_ids, history, call>>

\* kill_resource that never regenerates
killResourceNoRegrow(rescs, ref, new) == Kill(rescs, ref)

\* kill_resource that regenerates but leaves the exhausted patch in the group
killResourceKeepsOld(rescs, ref, new) ==
    IF regenerate_resources THEN Append(rescs, new) ELSE rescs

\* Simulation.kill_resource(resc): the group after it, given the new patch
kill_resource(rescs, ref, new) ==
    IF regenerate_resources THEN Kill(Append(rescs, new), ref) ELSE Kill(rescs, ref)

\* one round of "for resc, agents in collision_group_ar.items()" (sims.py 343-364)
AgentRescourceInteraction ==
    /\ pc = "ar"
    /\ ar_i < Len(collision_group_ar)
    /\ LET key == collision_group_ar[ar_i + 1]
           st == AgentsOnPatchLoop(key.agents, 1, collided_agents,
                    [agents |-> agents,
                     resc |-> RescByRef(rescources, key.resc),
                     destroy_resc |-> FALSE,
                     on_rescs |-> agents_on_rescs,
                     calls |-> deplete_calls,
                     examined |-> <<>>,
                     exhausted_at |-> 0])
           rescs == ReplaceResc(rescources, st.resc)
       IN /\ agents' = st.agents
          /\ agents_on_rescs' = st.on_rescs
          /\ deplete_calls' = st.calls
          /\ last_ar' = [resc |-> key.resc, examined |-> st.examined,
                         exhausted_at |-> st.exhausted_at,
                         destroy_resc |-> st.destroy_resc]
          /\ IF st.destroy_resc
             THEN /\ killed' = Append(killed, key.resc)
                  /\ IF regenerate_resources
                     THEN \E new \in Candidates(rescs, next_ref) :
                             /\ AddNewResourcePatch(rescs, new)
                             /\ rescources' = kill_resource(rescs, key.resc, new)
                             /\ created' = Append(created,
                                    [ref |-> new.ref, for |-> key.resc, live |-> rescs])
                             /\ next_ref' = next_ref + 1
                             /\ assigned_ids' = Append(assigned_ids, new.id)
                     ELSE /\ rescources' = kill_resource(rescs, key.resc, st.resc)
                          /\ UNCHANGED <<created, next_ref, assigned_ids>>
             ELSE /\ rescources' = rescs
                  /\ UNCHANGED <<killed, created, next_ref, assigned_ids>>
    /\ ar_i' = ar_i + 1
    /\ pc' = IF ar_i' = Len(collision_group_ar) THEN "no_resc" ELSE "ar"
    /\ UNCHANGED <<t, is_paused, config, collision_group_aa, collided_agents,
                   collision_group_ar, call>>

\* NoRescourceSignal with the agents advanced next, before the patches
NoRescourceSignalThenAgents ==
    /\ pc = "no_resc"
    /\ agents' = [i \in 1 .. Len(agents) |->
                    NoRescAgent(agents[i], i, agents_on_rescs, collided_agents)]
    /\ pc' = "agents_update"
    /\ UNCHANGED <<rescources, t, is_paused, config, locals, next_ref, assigned_ids,
                   history, call>>

\* sims.py 366-374
NoRescourceSignal ==
    /\ pc = "no_resc"
    /\ agents' = [i \in 1 .. Len(agents) |->
                    NoRescAgent(agents[i], i, agents_on_rescs, collided_agents)]
    /\ pc' = "resc_update"
    /\ UNCHANGED <<rescources, t, is_paused, config, locals, next_ref, assigned_ids, history, call>>

\* RescourcesUpdate that leaves out the patches created in this tick
RescourcesUpdateSkipsNew ==
    /\ pc = "resc_update"
    /\ \E theta \in [1 .. Len(rescources) -> ThetaInputs] :
          rescources' = [i \in 1 .. Len(rescources) |->
                           IF \E k \in 1 .. Len(created) :
                                 created[k].ref = rescources[i].ref
                           THEN rescources[i]
                           ELSE update(rescources[i], theta[i])]
    /\ collision_group_aa' = <<>>
    /\ collided_agents' = <<>>
    /\ collision_group_ar' = <<>>
    /\ ar_i' = 0
    /\ agents_on_rescs' = <<>>
    /\ deplete_calls' = <<>>
    /\ killed' = <<>>
    /\ created' = <<>>
    /\ last_ar' = NoAr
    /\ pc' = "agents_update"
    /\ UNCHANGED <<agents, t, is_paused, config, next_ref, assigned_ids, call>>

\* self.rescources.update(): Rescource.update on every live patch.  The
\* locals of the tick are dead from here on and are cleared.
RescourcesUpdate ==
    /\ pc = "resc_update"
    /\ \E theta \in [1 .. Len(rescources) -> ThetaInputs] :
          rescources' = [i \in 1 .. Len(rescources) |-> update(rescources[i], theta[i])]
    /\ collision_group_aa' = <<>>
    /\ collided_agents' = <<>>
    /\ collision_group_ar' = <<>>
    /\ ar_i' = 0
    /\ agents_on_rescs' = <<>>
    /\ deplete_calls' = <<>>
    /\ killed' = <<>>
    /\ created' = <<>>
    /\ last_ar' = NoAr
    /\ pc' = "agents_update"
    /\ UNCHANGED <<agents, t, is_paused, config, next_ref, assigned_ids, call>>

\* what Agent.update may leave in the fields the engine reads
AgentOutputs(id) ==
    [position : AgentPosInputs(id), orientation : AgentOriInputs,
     velocity : AgentVelInputs, mode : Modes, pool_success : {0, 1}]

\* self.agents.update(self.agents): Agent.update on every agent
AgentsUpdate ==
    /\ pc = "agents_update"
    /\ \E out \in [1 .. Len(agents) -> UNION {AgentOutputs(i - 1) : i \in 1 .. Len(agents)}] :
          /\ \A i \in 1 .. Len(agents) : out[i] \in AgentOutputs(agents[i].id)
          /\ agents' = [i \in 1 .. Len(agents) |->
                       [agents[i] EXCEPT
                          !.position = out[i].position,
                          !.orientation = out[i].orientation,
                          !.velocity = out[i].velocity,
                          !.mode = out[i].mode,
                          !.pool_success = out[i].pool_success]]
    /\ pc' = "next_timestep"
    /\ UNCHANGED <<rescources, t, is_paused, config, locals, next_ref, assigned_ids, history, call>>

\* NextTimestep with the counter advanced by two
NextTimestepByTwo ==
    /\ pc = "next_timestep"
    /\ t' = t + 2
    /\ pc' = IF t' < T THEN "loop" ELSE "done"
    /\ UNCHANGED <<agents, rescources, is_paused, config, locals, next_ref,
                   assigned_ids, history, call>>

\* self.t += 1, and the test of "while self.t < self.T" that follows it;
\* when it fails, pygame.quit()
NextTimestep ==
    /\ pc = "next_timestep"
    /\ t' = t + 1
    /\ pc' = IF t' < T THEN "loop" ELSE "done"
    /\ UNCHANGED <<agents, rescources, is_paused, config, locals, next_ref, assigned_ids,
                   history, call>>

Next ==
    \/ CreateAgents
    \/ CreateResource
    \/ EnterLoop
    \/ LoopEvents
    \/ AgentAgentInteraction
    \/ DemoteCollided
    \/ AgentRescourceInteraction
    \/ NoRescourceSignal
    \/ RescourcesUpdate
    \/ AgentsUpdate
    \/ NextTimestep

Spec == Init /\ [][Next]_vars

\* a run of two ticks with agent_consumption = 7 and patches of 4 units and
\* quality 10
InitScenario ==
    /\ agents = <<>>
    /\ rescources = <<>>
    /\ t = 0
    /\ T = 2
    /\ is_paused = FALSE
    /\ teleport_exploit \in BOOLEAN
    /\ regenerate_resources \in BOOLEAN
    /\ pooling_time \in PoolingTimeInputs
    /\ agent_consumption = 7
    /\ min_resc_units = 4
    /\ max_resc_units = 5
    /\ quality = 10
    /\ pc = "create_agents"
    /\ collision_group_aa = <<>>
    /\ collided_agents = <<>>
    /\ collision_group_ar = <<>>
    /\ ar_i = 0
    /\ agents_on_rescs = <<>>
    /\ next_ref = 1
    /\ assigned_ids = <<>>
    /\ deplete_calls = <<>>
    /\ killed = <<>>
    /\ created = <<>>
    /\ last_ar = NoAr
    /\ call = NoCall

SpecScenario == InitScenario /\ [][Next]_vars

-----------------------------------------------------------------------------
(* The life of the patches on its own: create_resources, then any live     *)
(* patch may be exhausted and handed to kill_resource.  The retry loop of  *)
(* add_new_resource_patch is taken one candidate at a time.                *)

MaxPatches == 2
MaxPatchObjects == 4

InitPlacement ==
    /\ agents = <<>>
    /\ rescources = <<>>
    /\ t = 0
    /\ T = 0
    /\ is_paused = FALSE
    /\ teleport_exploit = FALSE
    /\ regenerate_resources \in BOOLEAN
    /\ pooling_time = 0
    /\ agent_consumption = 1
    /\ min_resc_units = 1
    /\ max_resc_units = 3
    /\ quality = 1
    /\ pc = "create_resources"
    /\ collision_group_aa = <<>>
    /\ collided_agents = <<>>
    /\ collision_group_ar = <<>>
    /\ ar_i = 0
    /\ agents_on_rescs = <<>>
    /\ next_ref = 1
    /\ assigned_ids = <<>>
    /\ deplete_calls = <<>>
    /\ killed = <<>>
    /\ created = <<>>
    /\ last_ar = NoAr
    /\ call = NoCall

\* add_new_resource_patch is entered: the id is taken before the loop;
\* kill is the patch kill_resource removes afterwards (0: none)
EnterPlacement(kill) ==
    /\ next_ref <= MaxPatchObjects
    /\ call' = [op |-> "add_new_resource_patch", id |-> NewPatchId(rescources),
                kill |-> kill, rejected |-> FALSE]
    /\ pc' = "placing"
    /\ UNCHANGED <<agents, rescources, t, is_paused, config, locals, next_ref,
                   assigned_ids, history>>

\* one round of the loop of create_resources
PlacementCreate ==
    /\ pc = "create_resources"
    /\ Len(rescources) < MaxPatches
    /\ EnterPlacement(0)

\* create_resources returns
PlacementCreated ==
    /\ pc = "create_resources"
    /\ Len(rescources) >= 1
    /\ pc' = "live"
    /\ UNCHANGED <<agents, rescources, t, is_paused, config, locals, next_ref,
                   assigned_ids, history, call>>

\* kill_resource(resc) for a live patch that was exhausted (sims.py 363-364)
PlacementKill ==
    /\ pc = "live"
    /\ \E i \in 1 .. Len(rescources) :
          IF regenerate_resources
          THEN EnterPlacement(rescources[i].ref)
          ELSE /\ rescources' = kill_resource(rescources, rescources[i].ref,
                                              rescources[i])
               /\ UNCHANGED <<agents, t, is_paused, config, pc, locals, next_ref,
                              assigned_ids, history, call>>

\* one pass of "while not resource_proven": a candidate is drawn and
\* proved; if it passes it is added and, in kill_resource, the old patch
\* is killed; if not, the loop goes round
PlacementDraw ==
    /\ pc = "placing"
    /\ \E new \in Candidates(rescources, next_ref) :
          IF proove_resource(rescources, new)
          THEN /\ rescources' = IF call.kill = 0 THEN Append(rescources, new)
                                ELSE kill_resource(rescources, call.kill, new)
               /\ next_ref' = next_ref + 1
               /\ assigned_ids' = Append(assigned_ids, new.id)
               /\ pc' = IF call.kill = 0 THEN "create_resources" ELSE "live"
               /\ call' = NoCall
          ELSE /\ call' = [call EXCEPT !.rejected = TRUE]
               /\ UNCHANGED <<rescources, next_ref, assigned_ids, pc>>
    /\ UNCHANGED <<agents, t, is_paused, config, locals, history>>

NextPlacement ==
    \/ PlacementCreate
    \/ PlacementCreated
    \/ PlacementKill
    \/ PlacementDraw

SpecPlacement == InitPlacement /\ [][NextPlacement]_vars

-----------------------------------------------------------------------------
(* Rescource.deplete on its own: a patch built with any units and quality, *)
(* then any sequence of deplete calls with non-negative requests           *)

MaxUnits == 4
MaxQuality == 2
MaxRequest == 3

\* the simulation is not running
SimulationIdle ==
    /\ agents = <<>>
    /\ t = 0
    /\ T = 0
    /\ is_paused = FALSE
    /\ teleport_exploit = FALSE
    /\ regenerate_resources = FALSE
    /\ pooling_time = 0
    /\ agent_consumption = 1
    /\ min_resc_units = 1
    /\ max_resc_units = 3
    /\ quality = 1
    /\ collision_group_aa = <<>>
    /\ collided_agents = <<>>
    /\ collision_group_ar = <<>>
    /\ ar_i = 0
    /\ agents_on_rescs = <<>>
    /\ next_ref = 2
    /\ assigned_ids = <<1>>
    /\ deplete_calls = <<>>
    /\ killed = <<>>
    /\ created = <<>>
    /\ last_ar = NoAr

InitDeplete ==
    /\ SimulationIdle
    /\ pc = "rescource"
    /\ \E u \in 0 .. MaxUnits, q \in 0 .. MaxQuality :
          rescources = <<NewRescource(1, 1, resc_radius, <<Px(45), Px(30)>>, u, q)>>
    /\ call = NoCall

DepleteCall ==
    /\ pc = "rescource"
    /\ \E request \in 0 .. MaxRequest :
          LET d == deplete(rescources[1], request)
          IN /\ rescources' = <<d.resc>>
             /\ call' = [op |-> "deplete", request |-> request,
                         before |-> rescources[1],
                         granted |-> d.depleted_units, exhausted |-> d.destroy]
    /\ UNCHANGED <<agents, t, is_paused, config, pc, locals, next_ref, assigned_ids, history>>

NextDeplete == DepleteCall

SpecDeplete == InitDeplete /\ [][NextDeplete]_vars

-----------------------------------------------------------------------------
(* Rescource.reflect_from_walls on its own: a patch at any position around *)
(* the walls with any orientation in [0, 2 pi]                             *)

MaxOffset == 2

\* centre coordinates within MaxOffset pixels of either wall of an axis
NearWalls(b) ==
    {b[1] + d : d \in (0 - Px(MaxOffset)) .. Px(MaxOffset)}
        \cup {b[2] + d : d \in (0 - Px(MaxOffset)) .. Px(MaxOffset)}

InitReflect ==
    /\ SimulationIdle
    /\ pc = "rescource"
    /\ \E cx \in NearWalls(boundaries_x), cy \in NearWalls(boundaries_y),
          o \in 0 .. TWOPI :
          rescources =
              <<[NewRescource(1, 1, resc_radius,
                              <<cx - resc_radius, cy - resc_radius>>, 1, quality)
                   EXCEPT !.orientation = o, !.velocity = des_velocity]>>
    /\ call = NoCall

ReflectCall ==
    /\ pc = "rescource"
    /\ call = NoCall
    /\ rescources' = <<reflect_from_walls(rescources[1])>>
    /\ call' = [op |-> "reflect", before |-> rescources[1]]
    /\ UNCHANGED <<agents, t, is_paused, config, pc, locals, next_ref, assigned_ids, history>>

NextReflect == ReflectCall

SpecReflect == InitReflect /\ [][NextReflect]_vars

-----------------------------------------------------------------------------
(* Rescource.reflect_from_walls called twice in a row on a patch of an     *)
(* arena of any small width and height, at any position around the arena   *)

MaxSide == 2

\* widths and heights of the arena, from one pixel on
ArenaSides == {Px(s) : s \in 1 .. MaxSide}

\* centre coordinates from MaxOffset pixels before the near wall of an arena
\* of side w to MaxOffset pixels beyond its far wall
AroundArena(w) == (window_pad - Px(MaxOffset)) .. (window_pad + w + Px(MaxOffset))

InitReflectTwice ==
    /\ SimulationIdle
    /\ pc = "rescource"
    /\ \E w \in ArenaSides, h \in ArenaSides, o \in 0 .. TWOPI :
          \E cx \in AroundArena(w), cy \in AroundArena(h) :
             rescources =
                 <<[NewRescource(1, 1, resc_radius,
                                 <<cx - resc_radius, cy - resc_radius>>, 1, quality)
                      EXCEPT !.orientation = o, !.velocity = des_velocity,
                             !.boundaries_x = <<window_pad, window_pad + w>>,
                             !.boundaries_y = <<window_pad, window_pad + h>>]>>
    /\ call = NoCall

ReflectAgainCall ==
    /\ pc = "rescource"
    /\ call.op = "reflect"
    /\ rescources' = <<reflect_from_walls(rescources[1])>>
    /\ call' = [op |-> "reflect_again", before |-> call.before,
                between |-> rescources[1]]
    /\ UNCHANGED <<agents, t, is_paused, config, pc, locals, next_ref, assigned_ids, history>>

NextReflectTwice ==
    \/ ReflectCall
    \/ ReflectAgainCall

SpecReflectTwice == InitReflectTwice /\ [][NextReflectTwice]_vars

-----------------------------------------------------------------------------
(* A series of deplete calls on one patch built with 100 units and         *)
(* quality 5: Rescource(..., resc_units=100, quality=5)                    *)

MaxCalls == 3

\* the amounts asked for
RequestInputs == {0, 3, 5, 10, 120}

InitDepleteSeries ==
    /\ SimulationIdle
    /\ pc = "rescource"
    /\ rescources = <<NewRescource(1, 1, resc_radius, <<Px(45), Px(30)>>, 100, 5)>>
    /\ call = NoCall

DepleteSeriesCall ==
    /\ pc = "rescource"
    /\ Len(deplete_calls) < MaxCalls
    /\ \E request \in RequestInputs :
          LET d == deplete(rescources[1], request)
          IN /\ rescources' = <<d.resc>>
             /\ deplete_calls' = Append(deplete_calls,
                    [agent |-> 0, resc |-> rescources[1].ref,
                     request |-> request,
                     units |-> rescources[1].resc_units,
                     before |-> rescources[1].resc_left,
                     after |-> d.resc.resc_left,
                     granted |-> d.depleted_units,
                     exhausted |-> d.destroy])
    /\ UNCHANGED <<agents, t, is_paused, config, pc, locals, next_ref, assigned_ids,
                   killed, created, last_ar, call>>

NextDepleteSeries == DepleteSeriesCall

SpecDepleteSeries == InitDepleteSeries /\ [][NextDepleteSeries]_vars

-----------------------------------------------------------------------------
(* Steps 1 and 2 of one tick on their own, with four agents: the tick      *)
(* begins with each agent in or out of one cluster, in any of the modes    *)
(* these steps tell apart.  In the cluster agent 2 overlaps the three      *)
(* others, agents 3 and 4 overlap each other, agent 1 overlaps agent 2     *)
(* only; out of it an agent overlaps nobody.                               *)

\* where Agent.update may have left the four agents: <<in the cluster, apart>>
ClusterPositions ==
    << <<<<Px(27), Px(40)>>, <<Px(10), Px(75)>>>>,
       <<<<Px(45), Px(40)>>, <<Px(35), Px(75)>>>>,
       <<<<Px(60), Px(48)>>, <<Px(60), Px(75)>>>>,
       <<<<Px(60), Px(32)>>, <<Px(85), Px(75)>>>> >>

\* the modes, speeds and headings Agent.update may have left
ClusterModes == {"explore", "collide", "exploit"}
ClusterVelocities == {0, Px(1), Px(3) \div 2}
ClusterOrientations == {0, PI - 1, TWOPI - 1}

InitCollision ==
    /\ t = 0
    /\ T = 1
    /\ is_paused = FALSE
    /\ teleport_exploit \in BOOLEAN
    /\ regenerate_resources = FALSE
    /\ pooling_time = 0
    /\ agent_consumption = 1
    /\ min_resc_units = 1
    /\ max_resc_units = 3
    /\ quality = 1
    /\ rescources = <<>>
    /\ \E place \in [1 .. Len(ClusterPositions) -> {1, 2}],
          mode \in [1 .. Len(ClusterPositions) -> ClusterModes],
          v \in ClusterVelocities, o \in ClusterOrientations :
          agents = [i \in 1 .. Len(ClusterPositions) |->
                      [NewAgent(i - 1, ClusterPositions[i][place[i]])
                         EXCEPT !.mode = mode[i], !.velocity = v,
                                !.orientation = o]]
    /\ pc = "aa"
    /\ collision_group_aa = <<>>
    /\ collided_agents = <<>>
    /\ collision_group_ar = <<>>
    /\ ar_i = 0
    /\ agents_on_rescs = <<>>
    /\ next_ref = 1
    /\ assigned_ids = <<>>
    /\ deplete_calls = <<>>
    /\ killed = <<>>
    /\ created = <<>>
    /\ last_ar = NoAr
    /\ call = NoCall

NextCollision ==
    \/ AgentAgentInteraction
    \/ DemoteCollided

SpecCollision == InitCollision /\ [][NextCollision]_vars

-----------------------------------------------------------------------------
(* Steps 1 to 5 of one tick with two agents and two patches: the tick      *)
(* begins with the agents on both patches, on one, or on none, overlapping *)
(* each other or not                                                       *)

\* where the two patches are when the tick begins (they do not overlap)
ForagePatches == <<<<Px(30), Px(60)>>, <<Px(55), Px(60)>>>>

\* where Agent.update may have left the two agents: agent 1 on both patches
\* or on the first only; agent 2 on both patches and clear of agent 1, on
\* both and overlapping agent 1, or on none
ForagePositions ==
    << {<<Px(42), Px(49)>>, <<Px(25), Px(60)>>},
       {<<Px(42), Px(71)>>, <<Px(42), Px(60)>>, <<Px(80), Px(20)>>} >>

\* the modes Agent.update may have left
ForageModes == {"explore", "exploit"}

\* agent_consumption below and above the quality of the patches
ForageConsumptions == {1, 3}

InitForage ==
    /\ t = 0
    /\ T = 1
    /\ is_paused = FALSE
    /\ teleport_exploit \in BOOLEAN
    /\ regenerate_resources \in BOOLEAN
    /\ pooling_time \in PoolingTimeInputs
    /\ agent_consumption \in ForageConsumptions
    /\ min_resc_units = 1
    /\ max_resc_units = 3
    /\ quality = 1
    /\ \E u \in [1 .. Len(ForagePatches) -> PatchUnits] :
          rescources = [i \in 1 .. Len(ForagePatches) |->
                          [NewRescource(i, i, resc_radius, ForagePatches[i], u[i], quality)
                             EXCEPT !.velocity = des_velocity]]
    /\ \E p1 \in ForagePositions[1], p2 \in ForagePositions[2],
          mode \in [1 .. Len(ForagePositions) -> ForageModes] :
          agents = [i \in 1 .. Len(ForagePositions) |->
                      [NewAgent(i - 1, IF i = 1 THEN p1 ELSE p2)
                         EXCEPT !.mode = mode[i], !.velocity = Px(1)]]
    /\ pc = "aa"
    /\ collision_group_aa = <<>>
    /\ collided_agents = <<>>
    /\ collision_group_ar = <<>>
    /\ ar_i = 0
    /\ agents_on_rescs = <<>>
    /\ next_ref = Len(ForagePatches) + 1
    /\ assigned_ids = [i \in 1 .. Len(ForagePatches) |-> i]
    /\ deplete_calls = <<>>
    /\ killed = <<>>
    /\ created = <<>>
    /\ last_ar = NoAr
    /\ call = NoCall

NextForage ==
    \/ AgentAgentInteraction
    \/ DemoteCollided
    \/ AgentRescourceInteraction
    \/ NoRescourceSignal
    \/ RescourcesUpdate

SpecForage == InitForage /\ [][NextForage]_vars

-----------------------------------------------------------------------------
(* Rescource.prove_orientation on its own: a patch with any orientation    *)
(* within one revolution of [0, 2 pi]                                      *)

\* the angles of the open interval (-2 pi, 4 pi)
OrientationInputs == (1 - TWOPI) .. (TWOPI + TWOPI - 1)

InitOrientation ==
    /\ SimulationIdle
    /\ pc = "rescource"
    /\ \E o \in OrientationInputs :
          rescources =
              <<[NewRescource(1, 1, resc_radius, <<Px(45), Px(30)>>, 1, quality)
                   EXCEPT !.orientation = o]>>
    /\ call = NoCall

ProveOrientationCall ==
    /\ pc = "rescource"
    /\ call = NoCall
    /\ rescources' = <<[rescources[1] EXCEPT
                          !.orientation = prove_orientation(rescources[1].orientation)]>>
    /\ call' = [op |-> "prove_orientation", before |-> rescources[1]]
    /\ UNCHANGED <<agents, t, is_paused, config, pc, locals, next_ref, assigned_ids, history>>

NextOrientation == ProveOrientationCall

SpecOrientation == InitOrientation /\ [][NextOrientation]_vars

-----------------------------------------------------------------------------
(* Properties *)

InTick == pc \in {"demote", "ar", "no_resc", "resc_update"}

\* the agents that overlapped another agent at this tick's detection
Overlapped == {collision_group_aa[k].agent1 : k \in 1 .. Len(collision_group_aa)}

\* the agents some patch of collision_group_ar lists
OnSomePatch ==
    {i \in 1 .. Len(agents) :
        \E k \in 1 .. Len(collision_group_ar) : InSeq(i, collision_group_ar[k].agents)}

\* number of times x occurs in the sequence s
Count(s, x) == Cardinality({k \in 1 .. Len(s) : s[k] = x})

Live(ref) == \E i \in 1 .. Len(rescources) : rescources[i].ref = ref

\* the fields of agent i that steps 3 and 4 may write
Signals(ags, i) ==
    <<ags[i].collected_r, ags[i].env_status, ags[i].pool_success, ags[i].position>>

\* C1: every live patch has 0 <= resc_left <= resc_units, and so has every
\* patch right after each deplete call made on it during a tick.
C1_UnitsWithinBounds ==
    /\ \A i \in 1 .. Len(rescources) :
          /\ 0 <= rescources[i].resc_left
          /\ rescources[i].resc_left <= rescources[i].resc_units
    /\ \A k \in 1 .. Len(deplete_calls) :
          /\ 0 <= deplete_calls[k].after
          /\ deplete_calls[k].after <= deplete_calls[k].units

\* a deplete call was made on a patch that had nothing left
C1_Witness ==
    \E k \in 1 .. Len(deplete_calls) :
        deplete_calls[k].before = 0 /\ deplete_calls[k].request > 0

C2_OverlappedSkipped_Step ==
    pc \in {"ar", "no_resc"} =>
        \A i \in Overlapped :
            /\ Signals(agents', i) = Signals(agents, i)
            /\ \A k \in 1 .. Len(deplete_calls') :
                  k > Len(deplete_calls) => deplete_calls'[k].agent # i

\* C2 as stated: during agent-resource processing and no-resource
\* signalling no agent that overlapped another agent at detection is
\* depleting or has collected_r, env_status, pool_success or position changed.
C2_OverlappedSkipped == [][C2_OverlappedSkipped_Step]_vars

C2_OverlappedSkippedUnlessTeleportExploit_Step ==
    pc \in {"ar", "no_resc"} =>
        \A i \in Overlapped :
            ~(teleport_exploit /\ agents[i].mode = "exploit") =>
                /\ Signals(agents', i) = Signals(agents, i)
                /\ \A k \in 1 .. Len(deplete_calls') :
                      k > Len(deplete_calls) => deplete_calls'[k].agent # i

\* C2 amended: the same, except for an overlapped agent in exploit mode
\* when teleport_exploit is on.
C2_OverlappedSkippedUnlessTeleportExploit == [][C2_OverlappedSkippedUnlessTeleportExploit_Step]_vars

\* an overlapped agent in exploit mode stands on a patch whose round has
\* run, teleport_exploit off, and is in the exclusion list
C2_Witness ==
    /\ pc = "no_resc"
    /\ ~teleport_exploit
    /\ \E i \in Overlapped \cap OnSomePatch :
          /\ agents[i].mode = "exploit"
          /\ InCollided(i, collided_agents)

C3_CollectedNonDecreasing_Step ==
    \A i \in 1 .. Len(agents) :
        i <= Len(agents') => agents'[i].collected_r >= agents[i].collected_r

\* C3: no step lowers an agent's collected_r.
C3_CollectedNonDecreasing == [][C3_CollectedNonDecreasing_Step]_vars

\* an agent has collected something
C3_Witness == \E i \in 1 .. Len(agents) : agents[i].collected_r > 0

\* C4: a deplete call grants at most min(request, quality, resc_left before)
\* and lowers resc_left by exactly what it grants.
C4_GrantBounded ==
    call.op = "deplete" =>
        /\ call.granted <= call.request
        /\ call.granted <= call.before.unit_per_timestep
        /\ call.granted <= call.before.resc_left
        /\ rescources[1].resc_left = call.before.resc_left - call.granted

\* a request above the quality of a patch that holds more than its quality
C4_Witness ==
    /\ call.op = "deplete"
    /\ call.request > call.before.unit_per_timestep
    /\ call.before.resc_left > call.before.unit_per_timestep
    /\ call.granted > 0

\* C5: deplete returns True exactly when resc_left is 0 after the call.
C5_ExhaustedIffZero ==
    call.op = "deplete" => (call.exhausted <=> rescources[1].resc_left = 0)

\* a call on a patch already at 0: grants 0, returns True
C5_Witness ==
    /\ call.op = "deplete"
    /\ call.request > 0
    /\ call.before.resc_left = 0
    /\ call.before.resc_units > 0
    /\ call.granted = 0
    /\ call.exhausted

\* C6: a patch that a deplete call of this tick left at 0 is killed exactly
\* once in the tick and is no longer live; with regeneration on each kill
\* comes with exactly one new patch, which is full, holds at most
\* max_resc_units and overlaps no patch that was live when it was placed;
\* with regeneration off no patch is created.
C6_KillAndRegenerate ==
    InTick =>
        /\ \A k \in 1 .. Len(deplete_calls) :
              deplete_calls[k].after = 0 =>
                  /\ Count(killed, deplete_calls[k].resc) = 1
                  /\ ~Live(deplete_calls[k].resc)
        /\ IF regenerate_resources
           THEN /\ Len(created) = Len(killed)
                /\ \A k \in 1 .. Len(created) :
                      /\ created[k].for = killed[k]
                      /\ Live(created[k].ref)
                      /\ Count([j \in 1 .. Len(rescources) |-> rescources[j].ref],
                               created[k].ref) = 1
                      /\ LET new == RescByRef(rescources, created[k].ref)
                         IN /\ new.resc_left = new.resc_units
                            /\ new.resc_units <= max_resc_units
                            /\ \A j \in 1 .. Len(created[k].live) :
                                  ~CollideCircle(RescCenter(created[k].live[j]),
                                                 created[k].live[j].radius,
                                                 RescCenter(new), new.radius)
           ELSE created = <<>>

\* a patch was exhausted and replaced in this tick
C6_Witness ==
    /\ InTick
    /\ regenerate_resources
    /\ killed # <<>>
    /\ created # <<>>

\* C7 as stated: after the round of a patch that a deplete call exhausted,
\* every agent examined after the exhausting one has env_status = -1.
C7_LaterAgentsSeeEmpty ==
    (pc \in {"ar", "no_resc"} /\ last_ar.exhausted_at > 0) =>
        \A k \in 1 .. Len(last_ar.examined) :
            k > last_ar.exhausted_at => agents[last_ar.examined[k]].env_status = -1

\* the bounds of the arena on both axes
CentreInside(r) ==
    /\ boundaries_x[1] <= r.position[1] + r.radius
    /\ r.position[1] + r.radius <= boundaries_x[2]
    /\ boundaries_y[1] <= r.position[2] + r.radius
    /\ r.position[2] + r.radius <= boundaries_y[2]

CircleInside(r) ==
    /\ boundaries_x[1] <= r.position[1]
    /\ r.position[1] + 2 * r.radius <= boundaries_x[2]
    /\ boundaries_y[1] <= r.position[2]
    /\ r.position[2] + 2 * r.radius <= boundaries_y[2]

\* C8 as stated: after reflect_from_walls the whole bounding circle lies
\* inside the arena.
C8_CircleInsideAfterReflect ==
    call.op = "reflect" => CircleInside(rescources[1])

\* C8 amended: after reflect_from_walls the centre lies inside the arena.
C8_CentreInsideAfterReflect ==
    call.op = "reflect" => CentreInside(rescources[1])

\* a patch beyond the right and the lower wall was put back
C8_Witness ==
    /\ call.op = "reflect"
    /\ call.before.position[1] + call.before.radius > boundaries_x[2]
    /\ call.before.position[2] + call.before.radius > boundaries_y[2]
    /\ rescources[1].position # call.before.position

\* exactly two agents, overlapping at centre distance 15 px, none exploiting
PairScenario(ags) ==
    /\ Len(ags) = 2
    /\ LET c1 == AgentCenter(ags[1])
           c2 == AgentCenter(ags[2])
       IN (c1[1] - c2[1]) * (c1[1] - c2[1]) + (c1[2] - c2[2]) * (c1[2] - c2[2])
              = Px(15) * Px(15)
    /\ ags[1].mode # "exploit"
    /\ ags[2].mode # "exploit"

C9_ExactlyOneCollides_Step ==
    (pc = "aa" /\ PairScenario(agents)) =>
        \E i \in {1, 2} :
            /\ agents'[i].mode = "collide"
            /\ agents'[3 - i].mode = agents[3 - i].mode

C10_ExploitImmune_Step ==
    pc = "aa" =>
        \A i \in 1 .. Len(agents) :
            agents[i].mode = "exploit" => agents'[i].mode = "exploit"

\* C10: collision resolution leaves an agent in exploit mode in exploit
\* mode, so it never turns an exploiting agent into a colliding one.
C10_ExploitImmune == [][C10_ExploitImmune_Step]_vars

\* an agent in exploit mode got a collision response
C10_Witness ==
    /\ pc = "demote"
    /\ \E k \in 1 .. Len(collision_group_aa) :
          agents[collision_group_aa[k].agent2[1]].mode = "exploit"

\* the steps of a tick, by the position in Simulation.start they start at
TickSteps == {"aa", "demote", "ar", "no_resc", "resc_update", "agents_update",
              "next_timestep"}

C11_StepsInOrder_Step ==
    /\ pc \in TickSteps => ~is_paused /\ is_paused' = is_paused
    \* agent-agent collision resolution, then demotion
    /\ pc = "aa" =>
          /\ pc' = "demote"
          /\ rescources' = rescources /\ t' = t
    \* demotion is complete, then the patches with agents on them, if any
    /\ pc = "demote" =>
          /\ pc' = IF collision_group_ar' = <<>> THEN "no_resc" ELSE "ar"
          /\ \A i \in 1 .. Len(agents') :
                agents'[i].mode = "collide" => InCollided(i, collided_agents)
          /\ rescources' = rescources /\ t' = t
    \* every listed patch in turn, then no-resource signalling
    /\ pc = "ar" =>
          /\ ar_i' = ar_i + 1
          /\ pc' = IF ar_i' < Len(collision_group_ar) THEN "ar" ELSE "no_resc"
          /\ collision_group_ar' = collision_group_ar
          /\ t' = t
    \* no-resource signalling, then the advance of the patches
    /\ pc = "no_resc" =>
          /\ pc' = "resc_update"
          /\ ar_i = Len(collision_group_ar)
          /\ rescources' = rescources /\ t' = t
    \* the advance of the patches, then the advance of the agents
    /\ pc = "resc_update" =>
          /\ pc' = "agents_update"
          /\ agents' = agents /\ t' = t
    \* the advance of the agents, then the tick counter
    /\ pc = "agents_update" =>
          /\ pc' = "next_timestep"
          /\ rescources' = rescources /\ t' = t
    /\ pc = "next_timestep" =>
          /\ t' = t + 1
          /\ pc' \in {"loop", "done"}
          /\ agents' = agents /\ rescources' = rescources
    \* a tick is entered at its first step only
    /\ (pc \notin TickSteps /\ pc' \in TickSteps) => pc' = "aa"

\* C11: the steps of an unpaused tick run in the order agent-agent collision
\* resolution, demotion, agent-resource processing (every listed patch),
\* no-resource signalling, advance of the patches, advance of the agents,
\* tick counter increment; each step starts when the one before it is done
\* and leaves alone what belongs to the later steps.
C11_StepsInOrder == [][C11_StepsInOrder_Step]_vars

\* a whole tick has run, and the next one is in its agent-resource step
C11_Witness == t = 1 /\ pc = "ar" /\ ar_i = 0

Stage ==
    CASE pc = "create_agents" -> 11
      [] pc = "create_resources" -> 10
      [] pc = "loop" -> 8
      [] pc = "aa" -> 7
      [] pc = "demote" -> 6
      [] pc = "ar" -> 5
      [] pc = "no_resc" -> 4
      [] pc = "resc_update" -> 3
      [] pc = "agents_update" -> 2
      [] pc = "next_timestep" -> 1
      [] OTHER -> 0

LoopWork ==
    IF pc = "ar" THEN Len(collision_group_ar) - ar_i
    ELSE IF pc = "create_resources" THEN N_resc - Len(rescources)
    ELSE 0

\* (ticks to run, stage, work left in the loop), in lexicographic order
Rank == <<T - t, Stage, LoopWork>>

RankLess(r, s) ==
    \/ r[1] < s[1]
    \/ r[1] = s[1] /\ r[2] < s[2]
    \/ r[1] = s[1] /\ r[2] = s[2] /\ r[3] < s[3]

C12_TickCounter_Step ==
    /\ t' # t => (pc = "next_timestep" /\ ~is_paused /\ t' = t + 1)
    /\ pc = "next_timestep" => t' = t + 1
    \* a paused iteration comes back to the head of the loop
    /\ (pc = "loop" /\ is_paused') => (pc' \in {"loop", "exit"} /\ t' = t)
    \* every other step brings the end of the run closer
    /\ \/ pc = "loop" /\ pc' = "loop" /\ is_paused'
       \/ RankLess(Rank', Rank)

C12_TickCounter_Inv ==
    /\ 0 <= t /\ t <= T
    /\ LoopWork >= 0
    \* the loop test ends the loop exactly when t = T
    /\ pc = "done" => t = T
    /\ pc \in TickSteps \cup {"loop"} => t < T

C13_UnitsNonIncreasing_Step ==
    \A i \in 1 .. Len(rescources) : \A j \in 1 .. Len(rescources') :
        rescources'[j].ref = rescources[i].ref =>
            /\ rescources'[j].id = rescources[i].id
            /\ rescources'[j].resc_units = rescources[i].resc_units
            /\ rescources'[j].resc_left <= rescources[i].resc_left
            \* only deplete, in the agent-resource step, lowers it
            /\ rescources'[j].resc_left < rescources[i].resc_left =>
                  /\ pc = "ar"
                  /\ \E k \in (Len(deplete_calls) + 1) .. Len(deplete_calls') :
                        /\ deplete_calls'[k].resc = rescources[i].ref
                        /\ deplete_calls'[k].granted > 0
            \* the advance of the patches, with its wall reflection, keeps it
            /\ pc = "resc_update" =>
                  rescources'[j].resc_left = rescources[i].resc_left

\* C13: over the life of a patch resc_left never goes up: it goes down only
\* in the agent-resource step, by a deplete call on that patch, and
\* Rescource.update (with reflect_from_walls) and every other step leave it
\* as it is; resc_units and the id do not change either.
C13_UnitsNonIncreasing == [][C13_UnitsNonIncreasing_Step]_vars

\* a patch that was depleted in part has been advanced
C13_Witness ==
    /\ pc = "agents_update"
    /\ \E i \in 1 .. Len(rescources) :
          /\ 0 < rescources[i].resc_left
          /\ rescources[i].resc_left < rescources[i].resc_units
          /\ rescources[i].velocity = des_velocity

\* C14: on a patch built with 100 units and quality 5, as long as every
\* call so far asked for 10 units, the k-th call leaves 100 - 5 k units and
\* returns (5, False): 95, 90 and 85 after the first three calls.
C14_ThreeDepletesOfTen ==
    \A k \in 1 .. Len(deplete_calls) :
        (\A j \in 1 .. k : deplete_calls[j].request = 10) =>
            /\ deplete_calls[k].after = 100 - 5 * k
            /\ deplete_calls[k].granted = 5
            /\ ~deplete_calls[k].exhausted
            /\ k = Len(deplete_calls) => rescources[1].resc_left = 100 - 5 * k

\* three calls were made and each asked for 10
C14_Witness ==
    /\ Len(deplete_calls) = 3
    /\ \A j \in 1 .. 3 : deplete_calls[j].request = 10
    /\ rescources[1].resc_units = 100
    /\ rescources[1].unit_per_timestep = 5
    /\ rescources[1].resc_left = 85

C15_LastUnitsTaken_Step ==
    pc = "ar" =>
        \A k \in (Len(deplete_calls) + 1) .. Len(deplete_calls') :
            LET c == deplete_calls'[k] IN
            (c.request = 7 /\ c.before = 4) =>
                \* deplete(7) returns (4, True)
                /\ c.granted = 4
                /\ c.exhausted
                /\ agents'[c.agent].collected_r = agents[c.agent].collected_r + 4
                \* the patch is destroyed in this round of the tick
                /\ Count(killed', c.resc) = 1
                /\ \A i \in 1 .. Len(rescources') : rescources'[i].ref # c.resc
                \* with exactly one replacement, if patches are regenerated
                /\ IF regenerate_resources
                   THEN /\ Len(created') = Len(created) + 1
                        /\ created'[Len(created')].for = c.resc
                        /\ Len(rescources') = Len(rescources)
                   ELSE /\ created' = created
                        /\ Len(rescources') = Len(rescources) - 1

\* C15: with consumption 7, a deplete call of an exploiting agent on a
\* patch with 4 units left and quality 10 returns (4, True), the agent's
\* collected_r goes up by 4, and in the same round of the tick the patch is
\* killed and, with regeneration on, exactly one new patch is created (none
\* with regeneration off).
C15_LastUnitsTaken == [][C15_LastUnitsTaken_Step]_vars

\* the scenario has happened, with regeneration on
C15_Witness ==
    /\ pc = "no_resc"
    /\ regenerate_resources
    /\ Len(created) = 1
    /\ \E k \in 1 .. Len(deplete_calls) :
          /\ deplete_calls[k].request = 7
          /\ deplete_calls[k].before = 4
          /\ deplete_calls[k].granted = 4
          /\ ~InCollided(deplete_calls[k].agent, collided_agents)
          /\ agents[deplete_calls[k].agent].collected_r = 4

\* C16: the ids of the live patches are pairwise different, and the ids
\* handed out during the run are strictly increasing, so that no id is given
\* twice, whether its patch is still live or not; with regeneration on or off.
C16_IdsUniqueAndIncreasing ==
    /\ \A i \in 1 .. Len(rescources) : \A j \in 1 .. Len(rescources) :
          i # j => rescources[i].id # rescources[j].id
    /\ \A j \in 1 .. Len(assigned_ids) : \A k \in 1 .. Len(assigned_ids) :
          j < k => assigned_ids[j] < assigned_ids[k]
    /\ \A i \in 1 .. Len(rescources) :
          \E k \in 1 .. Len(assigned_ids) : assigned_ids[k] = rescources[i].id

\* a patch was created, then twice exhausted and replaced: the patches with
\* ids 1 and 2 are gone
C16_Witness ==
    /\ regenerate_resources
    /\ pc = "live"
    /\ Len(assigned_ids) = 3
    /\ Len(rescources) = 1
    /\ rescources[1].id = 3

\* the circle of patch new meets the circle of a patch of the group
OverlapsLive(rescs, new) ==
    \E i \in 1 .. Len(rescs) :
        LET dx == (rescs[i].position[1] + rescs[i].radius)
                      - (new.position[1] + new.radius)
            dy == (rescs[i].position[2] + rescs[i].radius)
                      - (new.position[2] + new.radius)
            reach == rescs[i].radius + new.radius
        IN dx * dx + dy * dy <= reach * reach

\* every place add_new_resource_patch can draw is taken
Saturated ==
    \A new \in Candidates(rescources, next_ref) : OverlapsLive(rescources, new)

C18_PlacementRetries_Step ==
    pc = "placing" =>
        \* no way out of the loop but back to the caller
        /\ pc' \in {"placing", "create_resources", "live"}
        \* a rejected candidate: nothing is added, the loop goes round
        /\ pc' = "placing" =>
              /\ rescources' = rescources
              /\ assigned_ids' = assigned_ids
              /\ call'.rejected
        \* it returns with one patch added, which overlaps no patch that
        \* was live
        /\ pc' # "placing" =>
              /\ Len(assigned_ids') = Len(assigned_ids) + 1
              /\ \E j \in 1 .. Len(rescources') :
                    /\ rescources'[j].ref = next_ref
                    /\ ~OverlapsLive(rescources, rescources'[j])
        \* with no free place it stays in the loop, in the same state
        /\ Saturated =>
              /\ pc' = "placing"
              /\ rescources' = rescources
              /\ next_ref' = next_ref

\* C18: add_new_resource_patch leaves its loop only with a candidate that
\* overlaps no live patch; a rejected candidate is followed by another
\* draw, without limit; and when no candidate can pass, every pass of the
\* loop ends in the state it started in, so the loop never ends, adds no
\* patch and reports nothing.
C18_PlacementRetries == [][C18_PlacementRetries_Step]_vars

\* two patches fill the arena, one of them is to be replaced, and a
\* candidate has been rejected
C18_Witness ==
    /\ pc = "placing"
    /\ Saturated
    /\ call.rejected
    /\ call.kill # 0
    /\ Len(rescources) = 2

\* C17 as stated: with a horizon T <= 0 nothing is created and no tick
\* runs: the simulation stops at start-up.
C17_NoStartWithoutHorizon ==
    T <= 0 =>
        /\ agents = <<>>
        /\ rescources = <<>>
        /\ t = 0
        /\ pc \in {"create_agents", "error"}

C20_FixedPopulation_Step ==
    pc # "create_agents" =>
        /\ Len(agents') = Len(agents)
        /\ \A i \in 1 .. Len(agents) : agents'[i].id = agents[i].id

C20_FixedPopulation_Inv ==
    pc # "create_agents" =>
        /\ Len(agents) = N
        /\ \A i \in 1 .. N : agents[i].id = i - 1

\* C20: create_agents makes exactly N agents, with the ids 0 .. N-1, and
\* from then on no step adds an agent, removes one or changes an id.
C20_FixedPopulation ==
    /\ [][C20_FixedPopulation_Step]_vars
    /\ []C20_FixedPopulation_Inv

\* the second tick has been through its steps, the agents were advanced
\* twice, and one of them has exploited a patch
C20_Witness ==
    /\ pc = "next_timestep"
    /\ t = 1
    /\ \E i \in 1 .. Len(agents) : agents[i].mode = "exploit"
    /\ \E i \in 1 .. Len(agents) : agents[i].collected_r > 0

\* the agents that got a collision response in step 1: each entry of
\* collision_group_aa passes the first agent of its list
Responded(group) == {group[k].agent2[1] : k \in 1 .. Len(group)}

\* number of collision responses agent i got in step 1
Responses(group, i) == Cardinality({k \in 1 .. Len(group) : group[k].agent2[1] = i})

C21_EveryPairResponded_Step ==
    pc = "aa" =>
       \A i, j \in 1 .. Len(agents) :
          (i < j /\ within_group_collision(agents, i, j)) =>
             \E m \in {i, j} :
                agents[m].mode = "exploit" \/ agents'[m].mode = "collide"

\* C21: for every unordered pair of agents that overlap in a tick, step 1
\* forces the mode of one member of the pair to collide unless that member is
\* in exploit mode, however many agents overlap at once.
C21_EveryPairResponded == [][C21_EveryPairResponded_Step]_vars

\* agent i overlaps another agent
OverlapsAnother(ags, i) == \E j \in 1 .. Len(ags) : within_group_collision(ags, i, j)

C22_DemoteUnlessRecollided_Step ==
    /\ pc = "aa" =>
          \A i \in 1 .. Len(agents) :
             agents[i].mode = "collide" => agents'[i].mode = "collide"
    /\ pc = "demote" =>
          \A i \in 1 .. Len(agents) :
             agents[i].mode = "collide" =>
                agents'[i].mode = IF OverlapsAnother(agents, i) THEN "collide"
                                  ELSE "explore"

\* C22: an agent in collide mode at the start of a tick is still in collide
\* mode after step 1; step 2 then leaves it in collide mode if it overlaps
\* another agent in this tick and puts it in explore mode if it overlaps none.
C22_DemoteUnlessRecollided == [][C22_DemoteUnlessRecollided_Step]_vars

\* after step 2: an agent that overlaps nobody is in explore mode, and an
\* agent that overlaps another and got no response (so was in collide mode
\* when the tick began) is still in collide mode
C22_Witness ==
    /\ pc = "no_resc"
    /\ \E i \in 1 .. Len(agents) :
          ~OverlapsAnother(agents, i) /\ agents[i].mode = "explore"
    /\ \E j \in 1 .. Len(agents) :
          /\ OverlapsAnother(agents, j)
          /\ j \notin Responded(collision_group_aa)
          /\ agents[j].mode = "collide"

\* the ordered pairs of agents that overlap
OverlappingPairs(ags) ==
    {p \in (1 .. Len(ags)) \X (1 .. Len(ags)) : within_group_collision(ags, p[1], p[2])}

\* the ordered pairs collision_group_aa lists
ListedPairs(group) ==
    {p \in (1 .. Len(agents)) \X (1 .. Len(agents)) :
        \E k \in 1 .. Len(group) : group[k].agent1 = p[1] /\ InSeq(p[2], group[k].agent2)}

C23_OneSnapshot_Step ==
    pc = "aa" =>
       /\ ListedPairs(collision_group_aa') = OverlappingPairs(agents)
       /\ \A i \in 1 .. Len(agents) : agents'[i].position = agents[i].position
       /\ OverlappingPairs(agents') = OverlappingPairs(agents)

\* C23: the overlaps step 1 works with are those of the positions the agents
\* have when the step begins, the responses of step 1 change no agent's
\* position, and so the agents overlap after the responses as they did before.
C23_OneSnapshot == [][C23_OneSnapshot_Step]_vars

\* after step 1 of a tick in which an agent got several responses
C23_Witness ==
    /\ pc = "demote"
    /\ \E i \in 1 .. Len(agents) : Responses(collision_group_aa, i) >= 2
    /\ ListedPairs(collision_group_aa) = OverlappingPairs(agents)

C26_ResponseVelocity_Step ==
    pc = "aa" =>
       \A i \in 1 .. Len(agents) :
          LET n == Responses(collision_group_aa', i)
              v == agents[i].velocity
              w == agents'[i].velocity
          IN /\ n = 0 => w = v
             /\ n >= 1 => w \in {Px(1), Px(3) \div 2}
             /\ n = 1 => w = IF v = Px(1) THEN Px(3) \div 2 ELSE Px(1)
             /\ (n = 2 /\ v = Px(1)) => w = Px(1)

\* C26: a collision response gives the agent velocity 1.5 if its velocity was
\* exactly 1 and velocity 1 otherwise; after any response the velocity is 1 or
\* 1.5, and two responses to an agent at velocity 1 leave it at velocity 1.
C26_ResponseVelocity == [][C26_ResponseVelocity_Step]_vars

\* after step 1: an agent with two responses is at velocity 1, one with one
\* response at 1.5, and one with none still at velocity 1 (the agents of
\* SpecCollision begin a tick at one common velocity)
C26_Witness ==
    /\ pc = "demote"
    /\ \E i, j, k \in 1 .. Len(agents) :
          /\ Responses(collision_group_aa, i) = 2 /\ agents[i].velocity = Px(1)
          /\ Responses(collision_group_aa, j) = 1 /\ agents[j].velocity = Px(3) \div 2
          /\ Responses(collision_group_aa, k) = 0 /\ agents[k].velocity = Px(1)

\* C28: after step 1 of a tick that began with every orientation in
\* [0, 2 pi), every agent's orientation is in [0, 2 pi).
C28_OrientationNormalized ==
    pc = "demote" =>
       \A i \in 1 .. Len(agents) :
          0 <= agents[i].orientation /\ agents[i].orientation < TWOPI

\* the agent's pooling has just completed
PoolingDone(a) ==
    (a.mode \in {"pool", "relocate"} /\ a.pool_success = 1) \/ a.pooling_time = 0

\* where teleporting puts an agent on the patch r
OnPatch(r) ==
    <<r.position[1] + r.radius - agent_radii, r.position[2] + r.radius - agent_radii>>

\* C24 as stated: after the round of a patch, every examined agent whose
\* pooling had just completed and that was examined while the patch was not
\* exhausted has pool_success = 0, env_status = 1 and, with teleport_exploit,
\* the position that centres it on the patch, else its old position.
C24_PoolingCompleted_Step ==
    pc = "ar" =>
       LET patch == RescByRef(rescources, collision_group_ar[ar_i + 1].resc)
       IN \A k \in 1 .. Len(last_ar'.examined) :
            LET i == last_ar'.examined[k]
            IN (PoolingDone(agents[i])
                  /\ (last_ar'.exhausted_at = 0 \/ k <= last_ar'.exhausted_at)) =>
                 /\ agents'[i].pool_success = 0
                 /\ agents'[i].env_status = 1
                 /\ agents'[i].position = IF teleport_exploit THEN OnPatch(patch)
                                          ELSE agents[i].position

C24_PoolingCompleted == [][C24_PoolingCompleted_Step]_vars

C24_PoolingCompletedUnlessExhauster_Step ==
    pc = "ar" =>
       LET patch == RescByRef(rescources, collision_group_ar[ar_i + 1].resc)
       IN \A k \in 1 .. Len(last_ar'.examined) :
            LET i == last_ar'.examined[k]
            IN (PoolingDone(agents[i])
                  /\ (last_ar'.exhausted_at = 0 \/ k <= last_ar'.exhausted_at)) =>
                 /\ agents'[i].pool_success = 0
                 /\ agents'[i].env_status =
                       IF k = last_ar'.exhausted_at THEN -1 ELSE 1
                 /\ (k = last_ar'.exhausted_at => agents[i].mode = "exploit")
                 /\ agents'[i].position = IF teleport_exploit THEN OnPatch(patch)
                                          ELSE agents[i].position

\* C24 amended: as C24, but the agent whose own deplete call of this round
\* exhausts the patch (an agent in exploit mode) ends with env_status = -1;
\* every other such agent ends with env_status = 1.
C24_PoolingCompletedUnlessExhauster ==
    [][C24_PoolingCompletedUnlessExhauster_Step]_vars

\* after the round of a patch that is still live, with teleport_exploit: an
\* examined agent with pooling_time = 0 that is not exploiting has
\* env_status = 1 and sits centred on the patch
C24_Witness ==
    /\ pc = "no_resc"
    /\ teleport_exploit
    /\ Live(last_ar.resc)
    /\ \E k \in 1 .. Len(last_ar.examined) :
          LET a == agents[last_ar.examined[k]]
          IN /\ a.pooling_time = 0
             /\ a.mode # "exploit"
             /\ a.env_status = 1
             /\ a.pool_success = 0
             /\ a.position = OnPatch(RescByRef(rescources, last_ar.resc))

C25_NoResourceSignal_Step ==
    pc = "no_resc" =>
       \A i \in 1 .. Len(agents) :
          IF /\ i \notin OnSomePatch
             /\ ~InCollided(i, collided_agents)
             /\ (PoolingDone(agents[i]) \/ agents[i].mode = "exploit")
          THEN agents'[i].env_status = -1 /\ agents'[i].pool_success = 0
          ELSE /\ agents'[i].env_status = agents[i].env_status
               /\ agents'[i].pool_success = agents[i].pool_success

\* C25: step 4 gives env_status = -1 and pool_success = 0 to every agent that
\* overlaps no patch, is not in collided_agents, and whose pooling just
\* completed or whose mode is exploit; it leaves env_status and pool_success of
\* every other agent as they were.
C25_NoResourceSignal == [][C25_NoResourceSignal_Step]_vars

\* after step 4: an exploiting agent on no patch that is not in
\* collided_agents has env_status = -1, and an agent on no patch that is in
\* collided_agents, with pooling_time = 0, has another env_status
C25_Witness ==
    /\ pc = "resc_update"
    /\ \E i \in 1 .. Len(agents) :
          /\ i \notin OnSomePatch
          /\ ~InCollided(i, collided_agents)
          /\ agents[i].mode = "exploit"
          /\ agents[i].env_status = -1
    /\ \E j \in 1 .. Len(agents) :
          /\ j \notin OnSomePatch
          /\ InCollided(j, collided_agents)
          /\ agents[j].pooling_time = 0
          /\ agents[j].env_status # -1

\* C27 as stated: prove_orientation maps every angle of (-2 pi, 4 pi) to the
\* angle of [0, 2 pi) that differs from it by 0 or 2 pi; the result is never
\* 2 pi.
C27_IntoHalfOpenRange ==
    call.op = "prove_orientation" =>
       LET in == call.before.orientation
           out == rescources[1].orientation
       IN /\ 0 <= out /\ out < TWOPI
          /\ out - in \in {0 - TWOPI, 0, TWOPI}

\* C27 amended: prove_orientation maps every angle of (-2 pi, 4 pi) to an
\* angle of the closed interval [0, 2 pi] that differs from it by 0 or 2 pi;
\* the result is 2 pi exactly when the angle was 2 pi.
C27_IntoClosedRange ==
    call.op = "prove_orientation" =>
       LET in == call.before.orientation
           out == rescources[1].orientation
       IN /\ 0 <= out /\ out <= TWOPI
          /\ out - in \in {0 - TWOPI, 0, TWOPI}
          /\ out = TWOPI <=> in = TWOPI

\* prove_orientation was called on the angle 2 pi and left it at 2 pi
C27_Witness ==
    /\ call.op = "prove_orientation"
    /\ call.before.orientation = TWOPI
    /\ rescources[1].orientation = TWOPI

\* patch q is patch r advanced by one call of update
Advanced(r, q) == \E theta \in ThetaInputs : q = update(r, theta)

C29_UpdateOncePerLivePatch_Step ==
    /\ pc = "resc_update" =>
          /\ Len(rescources') = Len(rescources)
          /\ \A i \in 1 .. Len(rescources) : Advanced(rescources[i], rescources'[i])
          /\ \A k \in 1 .. Len(killed) :
                \A i \in 1 .. Len(rescources') : rescources'[i].ref # killed[k]
          /\ \A k \in 1 .. Len(created) :
                \E i \in 1 .. Len(rescources') : rescources'[i].ref = created[k].ref
    /\ pc # "resc_update" =>
          \A i \in 1 .. Len(rescources), j \in 1 .. Len(rescources') :
             rescources[i].ref = rescources'[j].ref =>
                /\ rescources'[j].position = rescources[i].position
                /\ rescources'[j].orientation = rescources[i].orientation
                /\ rescources'[j].velocity = rescources[i].velocity

\* C29: step 5 of a tick advances every patch that is live after step 3 by
\* exactly one call of update, a patch created in this tick included and a
\* patch destroyed in this tick not, and no other step of the tick moves a
\* patch.
C29_UpdateOncePerLivePatch == [][C29_UpdateOncePerLivePatch_Step]_vars

\* after step 5 of the second tick, the first one in which an agent can
\* exploit: a replacement patch is live and has been advanced
C29_Witness ==
    /\ pc = "agents_update"
    /\ t = 1
    /\ \E i \in 1 .. Len(rescources) :
          /\ rescources[i].ref > N_resc
          /\ rescources[i].velocity = des_velocity

\* the deplete calls the step under way has added to deplete_calls
NewCalls == {k \in 1 .. Len(deplete_calls') : k > Len(deplete_calls)}

C30_NoEmptyPatchSurvives_Inv ==
    pc \in {"no_resc", "resc_update", "agents_update", "next_timestep", "loop",
            "done", "exit"} =>
       \A i \in 1 .. Len(rescources) : rescources[i].resc_left > 0

C30_NoEmptyPatchSurvives_Step ==
    pc = "ar" =>
       LET ref == collision_group_ar[ar_i + 1].resc
           emptied == \E k \in NewCalls : deplete_calls'[k].after = 0
           live == \E i \in 1 .. Len(rescources') : rescources'[i].ref = ref
       IN /\ emptied <=> ~live
          /\ \A i \in 1 .. Len(rescources') : rescources'[i].resc_left > 0

\* C30: with patches created with at least one unit, every live patch has
\* resc_left > 0 from the end of step 3 to the end of the tick and between
\* ticks; the round of a patch destroys it exactly when a deplete call of that
\* round brings its resc_left to 0.
C30_NoEmptyPatchSurvives ==
    /\ []C30_NoEmptyPatchSurvives_Inv
    /\ [][C30_NoEmptyPatchSurvives_Step]_vars

\* the end of a tick in which a patch was emptied, destroyed and replaced
C30_Witness ==
    /\ pc = "next_timestep"
    /\ \E i \in 1 .. Len(rescources) :
          rescources[i].ref > N_resc /\ rescources[i].resc_left > 0

\* the coordinate reflect_from_walls leaves on one axis: p the position and
\* c the centre before the call, b the two walls of the axis
Reflected(p, c, b, radius) ==
    IF c < b[1] THEN b[1] - radius
    ELSE IF c > b[2] THEN b[2] - radius - Px(1)
    ELSE p

\* C34: after reflect_from_walls the centre of the patch lies inside the
\* arena, whatever the position before and for any width and height of at
\* least one pixel; on each axis the call either leaves the coordinate alone,
\* or puts it back from the near wall, or puts it back from the far wall, and
\* the two axes are treated independently.
C34_CentreInsideOneWallPerAxis ==
    call.op = "reflect" =>
       LET b == call.before
           r == rescources[1]
       IN /\ r.boundaries_x[1] <= r.position[1] + r.radius
          /\ r.position[1] + r.radius <= r.boundaries_x[2]
          /\ r.boundaries_y[1] <= r.position[2] + r.radius
          /\ r.position[2] + r.radius <= r.boundaries_y[2]
          /\ r.position[1] = Reflected(b.position[1], b.position[1] + b.radius,
                                       b.boundaries_x, b.radius)
          /\ r.position[2] = Reflected(b.position[2], b.position[2] + b.radius,
                                       b.boundaries_y, b.radius)

\* a patch of an arena one pixel wide, before the left and beyond the lower
\* wall, was put back on both axes
C34_Witness ==
    /\ call.op = "reflect"
    /\ call.before.boundaries_x[2] - call.before.boundaries_x[1] = Px(1)
    /\ call.before.position[1] + call.before.radius < call.before.boundaries_x[1]
    /\ call.before.position[2] + call.before.radius > call.before.boundaries_y[2]
    /\ rescources[1].position[1] # call.before.position[1]
    /\ rescources[1].position[2] # call.before.position[2]

\* C35: a second call of reflect_from_walls right after a first one changes
\* neither the position nor the orientation.
C35_ReflectIdempotent ==
    call.op = "reflect_again" =>
       /\ rescources[1].position = call.between.position
       /\ rescources[1].orientation = call.between.orientation

\* reflect_from_walls was called twice on a patch that the first call put
\* back from the right wall and turned
C35_Witness ==
    /\ call.op = "reflect_again"
    /\ call.before.position[1] + call.before.radius > call.before.boundaries_x[2]
    /\ call.between.position # call.before.position
    /\ call.between.orientation # call.before.orientation
    /\ rescources[1] = call.between

\* C36: after step 2 of a tick every agent in collide mode is one that
\* overlapped another agent at this tick's detection (and, as long as step 3
\* has moved nobody, overlaps one now).
C36_CollideOnlyIfOverlapped ==
    pc \in {"ar", "no_resc", "resc_update"} =>
       \A i \in 1 .. Len(agents) :
          agents[i].mode = "collide" =>
             /\ i \in Overlapped
             /\ agents_on_rescs = <<>> => OverlapsAnother(agents, i)

\* after step 2: an agent that got a response in this tick is in collide
\* mode, while an agent that overlaps nobody is in explore mode
C36_Witness ==
    /\ pc = "no_resc"
    /\ \E i \in Responded(collision_group_aa) : agents[i].mode = "collide"
    /\ \E j \in 1 .. Len(agents) :
          j \notin Overlapped /\ agents[j].mode = "explore"

C37_PausedIterationIdle_Step ==
    (pc = "loop" /\ is_paused') =>
       /\ pc' \in {"loop", "exit"}
       /\ t' = t
       /\ Len(rescources') = Len(rescources)
       /\ \A i \in 1 .. Len(rescources) :
             /\ rescources'[i].ref = rescources[i].ref
             /\ rescources'[i].position = rescources[i].position
             /\ rescources'[i].resc_left = rescources[i].resc_left
       /\ Len(agents') = Len(agents)
       /\ \A i \in 1 .. Len(agents) :
             /\ agents'[i].mode = agents[i].mode
             /\ agents'[i].env_status = agents[i].env_status
             /\ agents'[i].pool_success = agents[i].pool_success
             /\ agents'[i].collected_r = agents[i].collected_r

\* C37: a loop iteration in which the simulation is paused runs none of the
\* steps of a tick: it leaves t, the patches with their positions and
\* resc_left, and every agent's mode, env_status, pool_success and collected_r
\* as they were.
C37_PausedIterationIdle == [][C37_PausedIterationIdle_Step]_vars

\* the simulation was paused after a tick whose step 4 signalled an agent
C37_Witness ==
    /\ pc = "loop"
    /\ is_paused
    /\ t = 1
    /\ \E i \in 1 .. Len(agents) : agents[i].env_status = -1

\* the sum of collected_r over the agents
RECURSIVE TotalCollected(_)
TotalCollected(ags) ==
    IF ags = <<>> THEN 0 ELSE Head(ags).collected_r + TotalCollected(Tail(ags))

\* resc_left of the patch with identity ref in rescs, 0 if it is not there
LeftOf(rescs, ref) ==
    IF \E i \in 1 .. Len(rescs) : rescs[i].ref = ref
    THEN RescByRef(rescs, ref).resc_left ELSE 0

\* the sum, over the patches of before, of the units they have lost in after
RECURSIVE TotalLost(_, _)
TotalLost(before, after) ==
    IF before = <<>> THEN 0
    ELSE Head(before).resc_left - LeftOf(after, Head(before).ref)
           + TotalLost(Tail(before), after)

C31_Conservation_Step ==
    /\ TotalCollected(agents') - TotalCollected(agents)
          = TotalLost(rescources, rescources')
    /\ pc # "ar" =>
          /\ TotalCollected(agents') = TotalCollected(agents)
          /\ \A i \in 1 .. Len(rescources) :
                LeftOf(rescources', rescources[i].ref) = rescources[i].resc_left

\* C31: in every step of a tick the agents together gain in collected_r what
\* the patches live before the step lose in resc_left, a destroyed patch
\* counting as 0; only the rounds of step 3 change either, so over the tick
\* the two sums are equal.
C31_Conservation == [][C31_Conservation_Step]_vars

\* after step 3 of a tick in which both patches gave units and one was
\* destroyed
C31_Witness ==
    /\ pc = "no_resc"
    /\ killed # <<>>
    /\ TotalCollected(agents) >= 3
    /\ \E k, l \in 1 .. Len(deplete_calls) :
          /\ deplete_calls[k].resc # deplete_calls[l].resc
          /\ deplete_calls[k].granted > 0
          /\ deplete_calls[l].granted > 0

C32_PatchCount_Step ==
    pc \in {"aa", "demote", "ar", "no_resc", "resc_update"} =>
       LET emptied == pc = "ar" /\ \E k \in NewCalls : deplete_calls'[k].after = 0
       IN IF regenerate_resources
          THEN Len(rescources') = Len(rescources)
          ELSE Len(rescources') = Len(rescources) - (IF emptied THEN 1 ELSE 0)

C33_ExploitersNotExcluded_Inv ==
    pc \in {"demote", "ar", "no_resc", "resc_update"} =>
       \A i \in Overlapped :
          InCollided(i, collided_agents)
             <=> ~(teleport_exploit /\ agents[i].mode = "exploit")

C33_ExploitersNotExcluded_Step ==
    /\ pc = "aa" =>
          {collision_group_aa'[k].agent1 : k \in 1 .. Len(collision_group_aa')}
             = {i \in 1 .. Len(agents) : OverlapsAnother(agents, i)}
    /\ pc = "ar" =>
          LET key == collision_group_ar[ar_i + 1]
          IN \A i \in Overlapped :
                (teleport_exploit /\ agents[i].mode = "exploit"
                    /\ InSeq(i, key.agents)) =>
                   \E k \in NewCalls :
                      /\ deplete_calls'[k].agent = i
                      /\ deplete_calls'[k].resc = key.resc

\* C33: with teleport_exploit an agent in exploit mode that overlaps another
\* agent is not in collided_agents, and deplete is called for it on every
\* patch it is on; every other agent that overlaps another one, and without
\* teleport_exploit every agent that does, is in collided_agents.
C33_ExploitersNotExcluded ==
    /\ []C33_ExploitersNotExcluded_Inv
    /\ [][C33_ExploitersNotExcluded_Step]_vars

\* after step 3 with teleport_exploit: an exploiting agent that overlapped
\* another agent was granted units, and the agent it overlapped is in
\* collided_agents
C33_Witness ==
    /\ pc = "no_resc"
    /\ teleport_exploit
    /\ \E k \in 1 .. Len(deplete_calls) :
          /\ deplete_calls[k].agent \in Overlapped
          /\ ~InCollided(deplete_calls[k].agent, collided_agents)
          /\ deplete_calls[k].granted > 0
    /\ \E j \in Overlapped : InCollided(j, collided_agents)

\* the smaller of two numbers
Min(a, b) == IF a < b THEN a ELSE b

C38_OncePerAgentAndPatch_Inv ==
    /\ \A k, l \in 1 .. Len(deplete_calls) :
          (deplete_calls[k].agent = deplete_calls[l].agent
              /\ deplete_calls[k].resc = deplete_calls[l].resc) => k = l
    /\ \A k, l \in 1 .. Len(collision_group_ar) :
          collision_group_ar[k].resc = collision_group_ar[l].resc => k = l

C38_OncePerAgentAndPatch_Step ==
    pc = "ar" =>
       LET key == collision_group_ar[ar_i + 1]
           patch == RescByRef(rescources, key.resc)
       IN \A i \in 1 .. Len(agents) :
             LET gain == agents'[i].collected_r - agents[i].collected_r
             IN IF InSeq(i, key.agents)
                THEN 0 <= gain
                     /\ gain <= Min(agents[i].consumption, patch.unit_per_timestep)
                ELSE gain = 0

\* C38: in one tick deplete is called at most once for an agent on a patch,
\* and each patch has one round; in the round of a patch an agent on it gains
\* at most min(consumption, quality) and every other agent gains nothing.
C38_OncePerAgentAndPatch ==
    /\ []C38_OncePerAgentAndPatch_Inv
    /\ [][C38_OncePerAgentAndPatch_Step]_vars

\* after step 3: one agent was granted units by two patches in this tick
C38_Witness ==
    /\ pc = "no_resc"
    /\ \E k, l \in 1 .. Len(deplete_calls) :
          /\ deplete_calls[k].agent = deplete_calls[l].agent
          /\ deplete_calls[k].resc # deplete_calls[l].resc
          /\ deplete_calls[k].granted > 0
          /\ deplete_calls[l].granted > 0
          /\ agents[deplete_calls[k].agent].collected_r
                = deplete_calls[k].granted + deplete_calls[l].granted

====
